---- MODULE Spec2Model ----
(***************************************************************************)
(* Grid order-lifecycle and position-reconciliation engine of the v3 bot   *)
(* (src/v3 - hft - 100% working/binance_hft_market_maker.py).              *)
(*                                                                         *)
(* Two asyncio tasks, monitor_orders and monitor_position, share the       *)
(* ledger active_orders and talk to the exchange.  A task is suspended     *)
(* only at an await; the code between two awaits runs atomically.          *)
(*                                                                         *)
(* An exchange call takes effect on the exchange at one instant and the    *)
(* task resumes with the answer at a later one.  Where the code that       *)
(* resumes reads or writes the ledger, the two instants are two steps:     *)
(* the action named ..._X is the exchange processing the request, the      *)
(* following action is the task resuming.  Where the resuming code touches *)
(* only the task's own variables (the position and mark price queries,     *)
(* the open-order query of cancel_orders, the SELL order of draw_grid),    *)
(* and where the call fails without an effect on the exchange, the two     *)
(* instants commute with every step of the other task and are one step.    *)
(* asyncio.sleep is a suspension with no effect; it is merged with the     *)
(* request that follows it.                                                *)
(*                                                                         *)
(* Two other engines of the repository are modelled next to it, each with  *)
(* a specification of its own: run_bot of src/bot.py (SpecBot), a thread   *)
(* whose exchange calls block, one step each, and draw_adaptive_grid of    *)
(* src/v7 - binance/hft.py (SpecHft).  Their state is in the records bot   *)
(* and hft, which the v3 engine leaves alone; run_bot uses the exchange    *)
(* of the model, with the leverage and take-profit percentage of the v3    *)
(* configuration.  Functions of the v3 bot that compute an answer from     *)
(* what the exchange reports are also checked one call at a time, on       *)
(* answers drawn from bounded sets (the record call).                      *)
(*                                                                         *)
(* Prices are integers counted in ticks, quantities in units of the        *)
(* configured volume.  None is modelled as 0 (no price, quantity or        *)
(* orderId is 0), which has the same truth value as None in the source.    *)
(***************************************************************************)
EXTENDS Integers, Sequences, FiniteSets, TLC

\* ---------------------------------------------------------------- bounds
\* Number of order ids the exchange hands out before the model stops.
MaxOrders == 4
\* BotConfig.num_of_grids, scaled down.
num_of_grids == 1
\* Largest absolute position the exchange lets the account build.
MaxPos == 2
\* Number of exchange calls that fail in one behaviour.
MaxFail == 1

\* ------------------------------------------------------------- constants
tick_size == 1
volume == 1
leverage == 1
take_profit_percent == 10
None == 0

SIDE_BUY == "BUY"
SIDE_SELL == "SELL"
MarkPrices == {10}

VARIABLES
    \* ---- exchange
    book,            \* id -> [side, price, qty, kind] of the orders resting on the exchange
    nextId,          \* next orderId the exchange assigns (1 .. nextId - 1 are acknowledged)
    fails,           \* exchange calls that failed so far
    positionAmt,     \* signed position of the account
    entryPrice,      \* entry price of the position (0 when flat)
    \* ---- BinanceBot
    active_orders,   \* the ledger: id -> [side, price]
    \* ---- monitor_orders task
    mo_pc, mo_open, mo_filled, mo_cur, mo_resp,
    \* ---- monitor_position task
    mp_pc, mp_resp, direction, tp_price, tp_quantity, new_tp,
    co_side, co_ret, co_list, dg_i, current_price, sell_order,
    \* ---- observers (history of what the tasks did)
    removed,         \* ids that were removed from the ledger
    cyc,             \* bookkeeping of the monitor_orders cycle
    mp_log,          \* calls made by monitor_position in the current tick
    obs,             \* bookkeeping of the monitor_position ticks
    \* ---- the other engines of the repository (idle in Spec)
    bot,             \* src/bot.py: the locals of run_bot and of the function it is in
    hft,             \* src/v7 - binance/hft.py: draw_adaptive_grid and what it reads
    \* ---- one call of a function of the v3 bot, on an answer of the exchange
    call             \* the function, what it is given and what it returns

book_vars == <<book, nextId, positionAmt, entryPrice>>
exch_vars == <<book, nextId, positionAmt, entryPrice, fails>>
mo_vars == <<mo_pc, mo_open, mo_filled, mo_cur, mo_resp>>
mp_vars == <<mp_pc, mp_resp, direction, tp_price, tp_quantity, new_tp,
             co_side, co_ret, co_list, dg_i, current_price, sell_order>>
hist_vars == <<removed, cyc, mp_log, obs>>
\* the state of the v3 engine, and the state of the other engines
v3_vars == <<active_orders, mo_vars, mp_vars, hist_vars>>
other_vars == <<bot, hft, call>>
vars == <<book, nextId, fails, positionAmt, entryPrice, active_orders,
          mo_pc, mo_open, mo_filled, mo_cur, mo_resp,
          mp_pc, mp_resp, direction, tp_price, tp_quantity, new_tp,
          co_side, co_ret, co_list, dg_i, current_price, sell_order,
          removed, cyc, mp_log, obs, bot, hft, call>>

\* ---------------------------------------------------------------- helpers
Abs(x) == IF x < 0 THEN -x ELSE x

Sign(x) == IF x > 0 THEN 1 ELSE IF x < 0 THEN -1 ELSE 0

Min(S) == CHOOSE x \in S : \A y \in S : x <= y

\* binance.helpers.round_step_size: quantity - quantity % step_size
round_step_size(quantity, step_size) == quantity - (quantity % step_size)

RECURSIVE SortedSeq(_)
SortedSeq(S) == IF S = {} THEN <<>>
                ELSE <<Min(S)>> \o SortedSeq(S \ {Min(S)})

\* dict = {k: v}: the assignment replaces the dict
DictSet_alone(f, k, v) == [x \in {k} |-> v]

\* dict[k] = v  and  dict.pop(k, None)
DictSet(f, k, v) == [x \in (DOMAIN f) \cup {k} |-> IF x = k THEN v ELSE f[x]]

DictPop(f, k) == [x \in (DOMAIN f) \ {k} |-> f[x]]

\* ------------------------------------------------------------- exchange
\* client.futures_create_order, accepted: the exchange assigns the next id
\* and the order rests.  (A rejected order changes nothing.)
ExchangeAccepts(side, price, qty, kind) ==
    /\ nextId <= MaxOrders
    /\ book' = DictSet(book, nextId,
                       [side |-> side, price |-> price, qty |-> qty, kind |-> kind])
    /\ nextId' = nextId + 1
    /\ UNCHANGED <<positionAmt, entryPrice, fails>>

\* An exchange call raises (network error, rejection): nothing changes on the
\* exchange.
ExchangeFails ==
    /\ fails < MaxFail
    /\ fails' = fails + 1
    /\ UNCHANGED book_vars

\* ids resting on the exchange, and ids the exchange ever acknowledged
open == DOMAIN book

acknowledged == 1 .. (nextId - 1)

\* client.futures_get_open_orders: the resting orders, oldest first
OpenOrderList == SortedSeq(open)

\* The position after order id is filled.
FilledAmt(id) ==
    positionAmt + (IF book[id].side = SIDE_BUY THEN book[id].qty ELSE -book[id].qty)

FilledEntry(id) ==
    LET new == FilledAmt(id) IN
    IF new = 0 THEN 0
    ELSE IF Sign(new) # Sign(positionAmt) THEN book[id].price
    ELSE IF Abs(new) > Abs(positionAmt)
         THEN (entryPrice * Abs(positionAmt) + book[id].price * book[id].qty) \div Abs(new)
         ELSE entryPrice

\* ------------------------------------------------- observers' bookkeeping
\* of the monitor_orders cycle in progress (reset when the next one begins):
\*   last      how the latest cycle went: "none", "run"(ning), "ok", "failed"
\*   filled    filled_order_ids as computed at line 441
\*   popped    the ids of filled that monitor_orders popped (and replaced)
\*   cancelled the ids of filled that cancel_orders popped meanwhile
\*   skipped   (of the cycle that ended) the ids of filled that line 444 did
\*             not find in the ledger
\*   stale     ledger ids that were not resting when line 437 was answered
\*   gone      acknowledged ids that were not resting when line 437 was answered
\*   q1        nobody but monitor_orders changed the exchange since line 437
\*   q2        ... nor since line 437 of the cycle before, which ended "ok",
\*             and when line 437 was answered every acknowledged order was
\*             resting or had been removed from the ledger
\*   alone     monitor_position took no step since line 437
NoCyc == [last |-> "none", filled |-> {}, popped |-> {}, cancelled |-> {},
          skipped |-> {}, stale |-> {}, gone |-> {}, q1 |-> FALSE, q2 |-> FALSE, alone |-> FALSE]

\* the exchange's book was changed by somebody other than monitor_orders
Foreign(c) == [c EXCEPT !.q1 = FALSE, !.q2 = FALSE]

\* monitor_position ran
Ran(c) == [c EXCEPT !.alone = FALSE]

\* of the monitor_position ticks:
\*   tps    take-profit orders accepted since the direction was detected
\*   extra  id -> age in inner-loop iterations begun, of the replacements
\*          monitor_orders got accepted on the side cancelled at detection,
\*          after cancel_orders(side) had its list
\*   full   the ledger held 2 * num_of_grids entries when the tick saw FLAT
\*   zero   the inner loop was left because line 501 was answered with a
\*          position amount of zero
\*   listed the id counter when cancel_orders() of a take-profit update was
\*          answered its list, 0 outside an update and after a failed cancel
\*   kept   the size of the position for which line 510 last kept the tracked
\*          target with another quantity, 0 after any other inner-loop step
NoObs == [tps |-> {}, extra |-> <<>>, full |-> FALSE, zero |-> FALSE, listed |-> 0,
          kept |-> 0]

\* a new iteration of the inner loop begins: every extra order is one tick older
Older(o) == [o EXCEPT !.extra = [id \in DOMAIN @ |-> IF @[id] < 2 THEN @[id] + 1 ELSE 2],
                       !.listed = 0,
                       !.kept = 0]

\* how a call of cancel_orders is entered in mp_log
cancel_call(side) == IF side = SIDE_SELL THEN "cancel_orders(SELL)"
                     ELSE IF side = SIDE_BUY THEN "cancel_orders(BUY)"
                     ELSE "cancel_orders()"

NoCur == [id |-> 0, side |-> SIDE_BUY, price |-> 0]

NoTp == [price |-> None, qty |-> None]

\* ------------------------------------------------ what the code computes
\* the difference of line 441 taken for the intersection
filled_order_ids_common(ledger, open_order_ids) == (DOMAIN ledger) \cap open_order_ids

\* the difference of line 441 left out
filled_order_ids_all(ledger, open_order_ids) == DOMAIN ledger

\* line 441: filled_order_ids = set(self.active_orders.keys()) - open_order_ids
filled_order_ids(ledger, open_order_ids) == (DOMAIN ledger) \ open_order_ids

\* the branches of lines 449 and 454 exchanged
replacement_side_opposite(order_info) ==
    IF order_info.side = SIDE_SELL THEN SIDE_BUY ELSE SIDE_SELL

\* lines 446-456: the order monitor_orders submits for a vanished entry
replacement_side(order_info) == order_info.side

\* lines 449 and 454 without the tick: the replacement at the old price
replacement_price_at_level(order_info) ==
    round_step_size(order_info.price, tick_size)

\* the SELL branch copied into the BUY branch without turning the sign
replacement_price_same_sign(order_info) ==
    round_step_size(order_info.price - tick_size, tick_size)

replacement_price(order_info) ==
    IF order_info.side = SIDE_SELL
    THEN round_step_size(order_info.price + tick_size, tick_size)
    ELSE round_step_size(order_info.price - tick_size, tick_size)

\* lines 193-204 with the amount zero taken for a LONG position
position_direction_nonneg(position_amt) ==
    IF position_amt >= 0 THEN "LONG" ELSE "SHORT"

\* get_position_direction, lines 189-204, on the amount it was sent
position_direction(position_amt) ==
    IF position_amt > 0 THEN "LONG" ELSE IF position_amt < 0 THEN "SHORT" ELSE "FLAT"

\* the sides of line 489 exchanged
opposing_side_swapped(dir) == IF dir = "LONG" THEN SIDE_BUY ELSE SIDE_SELL

\* line 489
opposing_side(dir) == IF dir = "LONG" THEN SIDE_SELL ELSE SIDE_BUY

\* line 421 with the sides exchanged
take_profit_side_swapped(dir) == IF dir = "LONG" THEN SIDE_BUY ELSE SIDE_SELL

\* line 421
take_profit_side(dir) == IF dir = "LONG" THEN SIDE_SELL ELSE SIDE_BUY

\* lines 379 and 384 with the whole profit added, not the profit per unit
calculate_take_profit_level_whole_profit(entry_price, position_amt) ==
    LET unit == 100 * leverage
        profit == entry_price * Abs(position_amt) * take_profit_percent
        tp == IF position_amt > 0 THEN entry_price * unit + profit
                                  ELSE entry_price * unit - profit
    IN  IF position_amt = 0 THEN NoTp
        ELSE IF round_step_size(tp, tick_size * unit) = 0 THEN NoTp
        ELSE [price |-> round_step_size(tp, tick_size * unit) \div unit,
              qty |-> Abs(position_amt)]

\* lines 360-364 left out and a level made up for a zero amount
calculate_take_profit_level_flat(entry_price, position_amt) ==
    LET unit == 100 * leverage * Abs(position_amt)
        profit == entry_price * Abs(position_amt) * take_profit_percent
        tp == IF position_amt > 0 THEN entry_price * unit + profit
                                  ELSE entry_price * unit - profit
    IN  IF position_amt = 0 THEN [price |-> tick_size, qty |-> volume]
        ELSE IF round_step_size(tp, tick_size * unit) = 0 THEN NoTp
        ELSE [price |-> round_step_size(tp, tick_size * unit) \div unit,
              qty |-> Abs(position_amt)]

\* calculate_take_profit_level, lines 360-398, on the position it was sent.
\* The price is computed exactly, in units of 1/(100 * leverage * |amt|) tick,
\* and then cut to the price step by round_step_size.
calculate_take_profit_level(entry_price, position_amt) ==
    LET unit == 100 * leverage * Abs(position_amt)
        profit == entry_price * Abs(position_amt) * take_profit_percent
        tp == IF position_amt > 0 THEN entry_price * unit + profit
                                  ELSE entry_price * unit - profit
    IN  IF position_amt = 0 THEN NoTp
        ELSE IF round_step_size(tp, tick_size * unit) = 0 THEN NoTp
        ELSE [price |-> round_step_size(tp, tick_size * unit) \div unit,
              qty |-> Abs(position_amt)]

\* lines 259-266
grid_sell_price(price, i) == round_step_size(price + (tick_size * i), tick_size)

\* the BUY level computed on the SELL side of the price
grid_buy_price_above(price, i) == round_step_size(price + (tick_size * i), tick_size)

grid_buy_price(price, i) == round_step_size(price - (tick_size * i), tick_size)

\* where monitor_position is between line 484 and the end of the inner loop
IN_POSITION == {"co_fetch", "co_cancel", "co_cancel_r", "mp_calc",
                "tp_place_init", "tp_place_init_r", "in_dir", "in_calc",
                "tp_place_upd", "tp_place_upd_r"}

\* ------------------------------------------------------- monitor_orders
\* The for loop of lines 443-458 from the point where `todo` is left, with
\* the ledger as `ledger`, up to the next await: ids no longer in the ledger
\* pop None and are skipped; the first id found is popped and its
\* replacement is requested; with nothing left the cycle ends in sleep(0.5).
\* (Iteration order of a Python set is arbitrary: any id may come first.  An
\* id missing now stays missing, so skipped ids need not be taken out of todo.)
monitor_orders_loop(todo, ledger, c) ==
    LET present == todo \cap DOMAIN ledger IN
    IF present = {}
    THEN /\ mo_pc' = "mo_fetch"
         /\ mo_filled' = {}
         /\ mo_cur' = NoCur
         /\ active_orders' = ledger
         /\ cyc' = [NoCyc EXCEPT !.last = "ok", !.q1 = c.q1, !.skipped = todo]
         /\ removed' = removed
    ELSE \E order_id \in present :
         /\ mo_pc' = "mo_place"
         /\ mo_filled' = todo \ {order_id}
         /\ mo_cur' = [id |-> order_id,
                       side |-> replacement_side(ledger[order_id]),
                       price |-> replacement_price(ledger[order_id])]
         /\ active_orders' = DictPop(ledger, order_id)
         /\ removed' = removed \cup {order_id}
         /\ cyc' = [c EXCEPT !.popped = @ \cup {order_id}]

\* line 437: the exchange answers futures_get_open_orders
monitor_orders_fetch_X ==
    /\ UNCHANGED other_vars
    /\ mo_pc = "mo_fetch"
    /\ mo_pc' = "mo_fetched"
    /\ mo_open' = open
    /\ cyc' = [NoCyc EXCEPT !.last = "run",
                            !.stale = (DOMAIN active_orders) \ open,
                            !.gone = acknowledged \ open,
                            !.q1 = TRUE,
                            !.q2 = /\ cyc.q1 /\ cyc.last = "ok"
                                   /\ acknowledged \ open \subseteq removed,
                            !.alone = TRUE]
    /\ UNCHANGED <<exch_vars, active_orders, mo_filled, mo_cur, mo_resp,
                   mp_vars, removed, mp_log, obs>>

\* line 437 raises and no except clause catches: the task is over
monitor_orders_fetch_fail_escapes ==
    /\ UNCHANGED other_vars
    /\ mo_pc = "mo_fetch"
    /\ ExchangeFails
    /\ mo_pc' = "raised"
    /\ cyc' = [NoCyc EXCEPT !.last = "failed"]
    /\ UNCHANGED <<active_orders, mo_open, mo_filled, mo_cur, mo_resp, mp_vars,
                   removed, mp_log, obs>>

\* line 437 raises: an except clause (lines 461-472) logs, sleeps 1 s and the
\* loop goes on
monitor_orders_fetch_fail ==
    /\ UNCHANGED other_vars
    /\ mo_pc = "mo_fetch"
    /\ ExchangeFails
    /\ cyc' = [NoCyc EXCEPT !.last = "failed"]
    /\ UNCHANGED <<active_orders, mo_vars, mp_vars, removed, mp_log, obs>>

\* lines 438-451: the task resumes with the list
monitor_orders_resume ==
    /\ UNCHANGED other_vars
    /\ mo_pc = "mo_fetched"
    /\ mo_open' = {}
    /\ mo_resp' = None
    /\ monitor_orders_loop(filled_order_ids(active_orders, mo_open), active_orders,
                           [cyc EXCEPT !.filled = filled_order_ids(active_orders, mo_open)])
    /\ UNCHANGED <<exch_vars, mp_vars, mp_log, obs>>

\* lines 451/456: the exchange accepts the replacement
monitor_orders_place_X ==
    /\ UNCHANGED other_vars
    /\ mo_pc = "mo_place"
    /\ ExchangeAccepts(mo_cur.side, mo_cur.price, volume, "repl")
    /\ mo_pc' = "mo_placed"
    /\ mo_resp' = nextId
    /\ obs' = IF /\ mp_pc \in IN_POSITION
                 /\ co_ret # "flip"
                 /\ ~(mp_pc = "co_fetch" /\ co_ret = "init")
                 /\ mo_cur.side = opposing_side(direction)
              THEN [obs EXCEPT !.extra = DictSet(@, nextId, 0)]
              ELSE obs
    /\ UNCHANGED <<active_orders, mo_open, mo_filled, mo_cur, mp_vars,
                   removed, cyc, mp_log>>

\* lines 452-453 and 457-458 left out: new_order is dropped
monitor_orders_placed_forgets ==
    /\ UNCHANGED other_vars
    /\ mo_pc = "mo_placed"
    /\ mo_resp' = None
    /\ mo_open' = {}
    /\ monitor_orders_loop(mo_filled, active_orders, cyc)
    /\ UNCHANGED <<exch_vars, mp_vars, mp_log, obs>>

\* lines 452-458 and on to the next id: the task resumes with new_order
monitor_orders_placed ==
    /\ UNCHANGED other_vars
    /\ mo_pc = "mo_placed"
    /\ mo_resp' = None
    /\ mo_open' = {}
    /\ monitor_orders_loop(mo_filled,
                           DictSet(active_orders, mo_resp,
                                   [side |-> mo_cur.side, price |-> mo_cur.price]),
                           cyc)
    /\ UNCHANGED <<exch_vars, mp_vars, mp_log, obs>>

\* the rejected replacement's entry put back into the ledger
monitor_orders_place_fail_requeue ==
    /\ UNCHANGED other_vars
    /\ mo_pc = "mo_place"
    /\ ExchangeFails
    /\ mo_resp' = None
    /\ mo_open' = {}
    /\ monitor_orders_loop(mo_filled,
                           DictSet(active_orders, mo_cur.id,
                                   [side |-> mo_cur.side, price |-> mo_cur.price]),
                           cyc)
    /\ UNCHANGED <<mp_vars, mp_log, obs>>

\* lines 451/456: the exchange rejects the replacement or the call fails;
\* place_limit_order catches the exception and returns None (lines 300-309),
\* nothing is inserted and the loop goes on to the next id
monitor_orders_place_fail ==
    /\ UNCHANGED other_vars
    /\ mo_pc = "mo_place"
    /\ ExchangeFails
    /\ mo_resp' = None
    /\ mo_open' = {}
    /\ monitor_orders_loop(mo_filled, active_orders, cyc)
    /\ UNCHANGED <<mp_vars, mp_log, obs>>

\* ----------------------------------------------------- monitor_position
\* sleep(1) of line 517, then line 501 of the next iteration of the inner loop
inner_loop_next ==
    /\ mp_pc' = "in_dir"
    /\ mp_log' = <<>>
    /\ obs' = Older(obs)

\* cancel_orders is entered (line 319 is in flight)
cancel_orders_call(side, ret) ==
    /\ mp_pc' = "co_fetch"
    /\ co_side' = side
    /\ co_ret' = ret
    /\ co_list' = <<>>

\* cancel_orders returns to line 495 (co_ret = "init"), to the break of line
\* 506 and on to lines 523 and 483 ("flip"), or to line 514 ("update"); the
\* ledger is left as `ledger`
cancel_orders_return(ledger) ==
    /\ active_orders' = ledger
    /\ co_side' = ""
    /\ co_ret' = ""
    /\ co_list' = <<>>
    /\ IF co_ret = "init"
       THEN /\ mp_pc' = "mp_calc"
            /\ mp_log' = Append(mp_log, "calculate_take_profit_level")
            /\ UNCHANGED <<tp_price, tp_quantity>>
       ELSE IF co_ret = "flip"
       THEN /\ mp_pc' = "mp_dir"
            /\ mp_log' = <<>>
            /\ tp_price' = None
            /\ tp_quantity' = None
       ELSE /\ mp_pc' = "tp_place_upd"
            /\ mp_log' = Append(mp_log, "place_take_profit_order")
            /\ UNCHANGED <<tp_price, tp_quantity>>

\* A query of the exchange is answered (ok) or raises.
Answer(ok) ==
    /\ ok \/ fails < MaxFail
    /\ fails' = IF ok THEN fails ELSE fails + 1
    /\ UNCHANGED book_vars

\* lines 205-216 answering with the direction monitor_position holds
get_position_direction_keeps(ok) ==
    IF ok THEN position_direction(positionAmt) ELSE direction

\* what get_position_direction (lines 187-216) returns: the direction of the
\* position, or FLAT when the query raises
get_position_direction(ok) == IF ok THEN position_direction(positionAmt) ELSE "FLAT"

\* what calculate_take_profit_level (lines 358-410) returns: the level for
\* the position, or (None, None) when the query raises
take_profit_level(ok) ==
    IF ok THEN calculate_take_profit_level(entryPrice, positionAmt) ELSE NoTp

\* lines 488-492 left out: a position goes straight to line 495
monitor_position_detect_no_cancel ==
    /\ UNCHANGED other_vars
    /\ mp_pc = "mp_dir"
    /\ \E ok \in BOOLEAN :
        /\ Answer(ok)
        /\ direction' = get_position_direction(ok)
        /\ IF direction' # "FLAT"
           THEN /\ mp_pc' = "mp_calc"
                /\ mp_log' = <<"calculate_take_profit_level">>
                /\ obs' = NoObs
           ELSE /\ mp_pc' = "dg_mark"
                /\ mp_log' = <<"draw_grid">>
                /\ obs' = [NoObs EXCEPT !.full =
                              Cardinality(DOMAIN active_orders) >= 2 * num_of_grids]
    /\ cyc' = Ran(cyc)
    /\ UNCHANGED <<active_orders, mo_vars, mp_resp, tp_price, tp_quantity,
                   new_tp, co_side, co_ret, co_list, dg_i, current_price,
                   sell_order, removed>>

\* lines 483-492 and 518-521 (with 248): the direction is answered; a
\* position starts cancel_orders(side=opposing_side), FLAT starts draw_grid
monitor_position_detect ==
    /\ UNCHANGED other_vars
    /\ mp_pc = "mp_dir"
    /\ \E ok \in BOOLEAN :
        /\ Answer(ok)
        /\ direction' = get_position_direction(ok)
        /\ IF direction' # "FLAT"
           THEN /\ cancel_orders_call(opposing_side(direction'), "init")
                /\ mp_log' = <<cancel_call(opposing_side(direction'))>>
                /\ obs' = NoObs
           ELSE /\ mp_pc' = "dg_mark"
                /\ mp_log' = <<"draw_grid">>
                /\ obs' = [NoObs EXCEPT !.full =
                              Cardinality(DOMAIN active_orders) >= 2 * num_of_grids]
                /\ UNCHANGED <<co_side, co_ret, co_list>>
    /\ cyc' = Ran(cyc)
    /\ UNCHANGED <<active_orders, mo_vars, mp_resp, tp_price, tp_quantity,
                   new_tp, dg_i, current_price, sell_order, removed>>

\* lines 319-329: cancel_orders gets the list, keeps the orders of the side
\* asked for and requests the first cancellation (or returns on an empty list)
cancel_orders_list ==
    /\ UNCHANGED other_vars
    /\ mp_pc = "co_fetch"
    /\ LET todo == IF co_side # ""
                   THEN SelectSeq(OpenOrderList, LAMBDA id : book[id].side = co_side)
                   ELSE OpenOrderList
       IN  IF todo # <<>>
           THEN /\ mp_pc' = "co_cancel"
                /\ co_list' = todo
                /\ UNCHANGED <<active_orders, co_side, co_ret, tp_price,
                               tp_quantity, mp_log>>
           ELSE cancel_orders_return(active_orders)
    /\ obs' = IF co_ret = "update" THEN [obs EXCEPT !.listed = nextId] ELSE obs
    /\ cyc' = Ran(cyc)
    /\ UNCHANGED <<exch_vars, mo_vars, mp_resp, direction, new_tp, dg_i, current_price,
                   sell_order, removed>>

\* line 319 raises: lines 341-349 log and cancel_orders returns
cancel_orders_list_fail ==
    /\ UNCHANGED other_vars
    /\ mp_pc = "co_fetch"
    /\ ExchangeFails
    /\ cancel_orders_return(active_orders)
    /\ cyc' = Ran(cyc)
    /\ UNCHANGED <<mo_vars, mp_resp, direction, new_tp, dg_i, current_price,
                   sell_order, removed, obs>>

\* line 329: the exchange takes the order off the book
cancel_order_X ==
    /\ UNCHANGED other_vars
    /\ mp_pc = "co_cancel"
    /\ Head(co_list) \in open
    /\ book' = DictPop(book, Head(co_list))
    /\ mp_pc' = "co_cancel_r"
    /\ cyc' = Foreign(Ran(cyc))
    /\ UNCHANGED <<nextId, fails, positionAmt, entryPrice, active_orders, mo_vars,
                   mp_resp, direction, tp_price, tp_quantity, new_tp, co_side, co_ret,
                   co_list, dg_i, current_price, sell_order, removed, mp_log, obs>>

\* line 333 as self.active_orders.pop(order['orderId']): an id that is not a
\* key raises KeyError, lines 341-349 log and cancel_orders returns
cancel_orders_cancelled_raises ==
    /\ UNCHANGED other_vars
    /\ mp_pc = "co_cancel_r"
    /\ removed' = IF Head(co_list) \in DOMAIN active_orders
                  THEN removed \cup {Head(co_list)} ELSE removed
    /\ cyc' = IF Head(co_list) \in (DOMAIN active_orders) \cap cyc.filled
              THEN [Ran(cyc) EXCEPT !.cancelled = @ \cup {Head(co_list)}]
              ELSE Ran(cyc)
    /\ IF Tail(co_list) # <<>> /\ Head(co_list) \in DOMAIN active_orders
       THEN /\ mp_pc' = "co_cancel"
            /\ co_list' = Tail(co_list)
            /\ active_orders' = DictPop(active_orders, Head(co_list))
            /\ UNCHANGED <<co_side, co_ret, tp_price, tp_quantity, mp_log>>
       ELSE cancel_orders_return(DictPop(active_orders, Head(co_list)))
    /\ UNCHANGED <<exch_vars, mo_vars, mp_resp, direction, new_tp, dg_i, current_price,
                   sell_order, obs>>

\* lines 330-333 and on to the next order of the list
cancel_orders_cancelled ==
    /\ UNCHANGED other_vars
    /\ mp_pc = "co_cancel_r"
    /\ removed' = IF Head(co_list) \in DOMAIN active_orders
                  THEN removed \cup {Head(co_list)} ELSE removed
    /\ cyc' = IF Head(co_list) \in (DOMAIN active_orders) \cap cyc.filled
              THEN [Ran(cyc) EXCEPT !.cancelled = @ \cup {Head(co_list)}]
              ELSE Ran(cyc)
    /\ IF Tail(co_list) # <<>>
       THEN /\ mp_pc' = "co_cancel"
            /\ co_list' = Tail(co_list)
            /\ active_orders' = DictPop(active_orders, Head(co_list))
            /\ UNCHANGED <<co_side, co_ret, tp_price, tp_quantity, mp_log>>
       ELSE cancel_orders_return(DictPop(active_orders, Head(co_list)))
    /\ UNCHANGED <<exch_vars, mo_vars, mp_resp, direction, new_tp, dg_i, current_price,
                   sell_order, obs>>

\* line 333 moved in front of line 329: the entry is popped although the
\* cancel raised
cancel_order_fail_pops ==
    /\ UNCHANGED other_vars
    /\ mp_pc = "co_cancel"
    /\ IF Head(co_list) \in open THEN ExchangeFails ELSE UNCHANGED exch_vars
    /\ cancel_orders_return(DictPop(active_orders, Head(co_list)))
    /\ cyc' = Ran(cyc)
    /\ UNCHANGED <<mo_vars, mp_resp, direction, new_tp, dg_i, current_price,
                   sell_order, removed, obs>>

\* the try of line 318 put inside the for loop: a failed cancel is logged and
\* the loop goes on with the next order of the list
cancel_order_fail_goes_on ==
    /\ UNCHANGED other_vars
    /\ mp_pc = "co_cancel"
    /\ IF Head(co_list) \in open THEN ExchangeFails ELSE UNCHANGED exch_vars
    /\ IF Tail(co_list) # <<>>
       THEN /\ mp_pc' = "co_cancel"
            /\ co_list' = Tail(co_list)
            /\ UNCHANGED <<active_orders, co_side, co_ret, tp_price, tp_quantity, mp_log>>
       ELSE cancel_orders_return(active_orders)
    /\ cyc' = Ran(cyc)
    /\ UNCHANGED <<mo_vars, mp_resp, direction, new_tp, dg_i, current_price,
                   sell_order, removed, obs>>

\* line 329 raises, because the order no longer rests (filled meanwhile) or
\* because the request fails: lines 341-349 log and cancel_orders returns; the
\* rest of the list is left alone
cancel_order_fail ==
    /\ UNCHANGED other_vars
    /\ mp_pc = "co_cancel"
    /\ IF Head(co_list) \in open THEN ExchangeFails ELSE UNCHANGED exch_vars
    /\ cancel_orders_return(active_orders)
    /\ obs' = [obs EXCEPT !.listed = 0]
    /\ cyc' = Ran(cyc)
    /\ UNCHANGED <<mo_vars, mp_resp, direction, new_tp, dg_i, current_price,
                   sell_order, removed>>

\* lines 495-501: the first take-profit level is answered; a level is sent to
\* place_take_profit_order, no level goes straight into the inner loop
monitor_position_level ==
    /\ UNCHANGED other_vars
    /\ mp_pc = "mp_calc"
    /\ \E ok \in BOOLEAN :
        /\ Answer(ok)
        /\ tp_price' = take_profit_level(ok).price
        /\ tp_quantity' = take_profit_level(ok).qty
        /\ IF tp_price' # None /\ tp_quantity' # None
           THEN /\ mp_pc' = "tp_place_init"
                /\ mp_log' = Append(mp_log, "place_take_profit_order")
                /\ obs' = obs
           ELSE inner_loop_next
    /\ cyc' = Ran(cyc)
    /\ UNCHANGED <<active_orders, mo_vars, mp_resp, direction, new_tp,
                   co_side, co_ret, co_list, dg_i, current_price, sell_order, removed>>

\* The take-profit order in flight at line 424.
take_profit_request ==
    IF mp_pc = "tp_place_init"
    THEN [side |-> take_profit_side(direction), price |-> tp_price, qty |-> tp_quantity]
    ELSE [side |-> take_profit_side(direction), price |-> new_tp.price, qty |-> new_tp.qty]

\* line 424 (289): the exchange accepts the take-profit order
take_profit_X ==
    /\ UNCHANGED other_vars
    /\ mp_pc \in {"tp_place_init", "tp_place_upd"}
    /\ ExchangeAccepts(take_profit_request.side, take_profit_request.price,
                       take_profit_request.qty, "tp")
    /\ mp_pc' = IF mp_pc = "tp_place_init" THEN "tp_place_init_r" ELSE "tp_place_upd_r"
    /\ mp_resp' = nextId
    /\ obs' = [obs EXCEPT !.tps = @ \cup {nextId}]
    /\ cyc' = Foreign(Ran(cyc))
    /\ UNCHANGED <<active_orders, mo_vars, direction, tp_price, tp_quantity, new_tp,
                   co_side, co_ret, co_list, dg_i, current_price, sell_order,
                   removed, mp_log>>

\* lines 425-428 and 515 with the target tracked only for an accepted order:
\* after a failed placement no price is tracked
take_profit_done_tracks_accepted(order, request) ==
    /\ mp_resp' = None
    /\ IF order # None THEN UNCHANGED exch_vars ELSE ExchangeFails
    /\ active_orders' = IF order # None
                        THEN DictSet(active_orders, order,
                                     [side |-> request.side, price |-> request.price])
                        ELSE active_orders
    /\ IF order = None
       THEN /\ tp_price' = None
            /\ tp_quantity' = None
       ELSE IF mp_pc \in {"tp_place_upd", "tp_place_upd_r"}
       THEN /\ tp_price' = new_tp.price
            /\ tp_quantity' = new_tp.qty
       ELSE UNCHANGED <<tp_price, tp_quantity>>
    /\ new_tp' = NoTp
    /\ inner_loop_next
    /\ cyc' = Ran(cyc)
    /\ UNCHANGED <<mo_vars, direction, co_side, co_ret, co_list, dg_i,
                   current_price, sell_order, removed>>

\* lines 425-428 with the order (None when place_limit_order failed), then
\* line 501, after line 515 and the sleep of line 517 in an update
take_profit_done(order, request) ==
    /\ mp_resp' = None
    /\ IF order # None THEN UNCHANGED exch_vars ELSE ExchangeFails
    /\ active_orders' = IF order # None
                        THEN DictSet(active_orders, order,
                                     [side |-> request.side, price |-> request.price])
                        ELSE active_orders
    /\ IF mp_pc \in {"tp_place_upd", "tp_place_upd_r"}
       THEN /\ tp_price' = new_tp.price
            /\ tp_quantity' = new_tp.qty
       ELSE UNCHANGED <<tp_price, tp_quantity>>
    /\ new_tp' = NoTp
    /\ inner_loop_next
    /\ cyc' = Ran(cyc)
    /\ UNCHANGED <<mo_vars, direction, co_side, co_ret, co_list, dg_i,
                   current_price, sell_order, removed>>

take_profit_placed ==
    /\ UNCHANGED other_vars
    /\ mp_pc \in {"tp_place_init_r", "tp_place_upd_r"}
    /\ take_profit_done(mp_resp,
                        IF mp_pc = "tp_place_init_r"
                        THEN [side |-> take_profit_side(direction), price |-> tp_price]
                        ELSE [side |-> take_profit_side(direction), price |-> new_tp.price])

\* line 289 raises: place_limit_order returns None (lines 300-309)
take_profit_fail ==
    /\ UNCHANGED other_vars
    /\ mp_pc \in {"tp_place_init", "tp_place_upd"}
    /\ take_profit_done(None, take_profit_request)

\* lines 501-509: the direction is answered in the inner loop; a change
\* starts cancel_orders() and leaves the loop
inner_loop_direction ==
    /\ UNCHANGED other_vars
    /\ mp_pc = "in_dir"
    /\ \E ok \in BOOLEAN :
        /\ Answer(ok)
        /\ IF get_position_direction(ok) # direction
           THEN /\ cancel_orders_call("", "flip")
                /\ mp_log' = Append(mp_log, cancel_call(""))
                /\ obs' = [NoObs EXCEPT !.zero = ok /\ positionAmt = 0]
           ELSE /\ mp_pc' = "in_calc"
                /\ mp_log' = Append(mp_log, "calculate_take_profit_level")
                /\ UNCHANGED <<co_side, co_ret, co_list, obs>>
    /\ cyc' = Ran(cyc)
    /\ UNCHANGED <<active_orders, mo_vars, mp_resp, direction, tp_price,
                   tp_quantity, new_tp, dg_i, current_price, sell_order, removed>>

\* line 510 without the comparison with the tracked price
take_profit_changed_always(new_tp_price) == new_tp_price # None

\* line 510: the take-profit order is to be replaced
take_profit_changed(new_tp_price) == new_tp_price # None /\ new_tp_price # tp_price

\* line 513 as cancel_orders(side=...) for the side of the take-profit order
inner_loop_level_cancels_own_side ==
    /\ UNCHANGED other_vars
    /\ mp_pc = "in_calc"
    /\ \E ok \in BOOLEAN :
        /\ Answer(ok)
        /\ IF take_profit_changed(take_profit_level(ok).price)
           THEN /\ new_tp' = take_profit_level(ok)
                /\ cancel_orders_call(take_profit_side(direction), "update")
                /\ mp_log' = Append(mp_log, cancel_call(take_profit_side(direction)))
                /\ obs' = obs
           ELSE /\ new_tp' = NoTp
                /\ mp_pc' = "in_dir"
                /\ mp_log' = <<>>
                /\ obs' = [Older(obs) EXCEPT !.kept =
                               IF ok /\ Abs(positionAmt) # tp_quantity
                               THEN Abs(positionAmt) ELSE 0]
                /\ UNCHANGED <<co_side, co_ret, co_list>>
    /\ cyc' = Ran(cyc)
    /\ UNCHANGED <<active_orders, mo_vars, mp_resp, direction, tp_price,
                   tp_quantity, dg_i, current_price, sell_order, removed>>

\* lines 509-517: the recomputed level is answered; a changed price starts
\* cancel_orders(), after which line 514 places the new order
inner_loop_level ==
    /\ UNCHANGED other_vars
    /\ mp_pc = "in_calc"
    /\ \E ok \in BOOLEAN :
        /\ Answer(ok)
        /\ IF take_profit_changed(take_profit_level(ok).price)
           THEN /\ new_tp' = take_profit_level(ok)
                /\ cancel_orders_call("", "update")
                /\ mp_log' = Append(mp_log, cancel_call(""))
                /\ obs' = obs
           ELSE /\ new_tp' = NoTp
                /\ mp_pc' = "in_dir"
                /\ mp_log' = <<>>
                /\ obs' = [Older(obs) EXCEPT !.kept =
                               IF ok /\ Abs(positionAmt) # tp_quantity
                               THEN Abs(positionAmt) ELSE 0]
                /\ UNCHANGED <<co_side, co_ret, co_list>>
    /\ cyc' = Ran(cyc)
    /\ UNCHANGED <<active_orders, mo_vars, mp_resp, direction, tp_price,
                   tp_quantity, dg_i, current_price, sell_order, removed>>

\* ---- draw_grid
\* lines 249-252 replaced by a made-up price: the grid is drawn all the same
draw_grid_price_default ==
    /\ UNCHANGED other_vars
    /\ mp_pc = "dg_mark"
    /\ \E ok \in BOOLEAN :
            /\ Answer(ok)
            /\ mp_pc' = "dg_sell"
            /\ current_price' = IF ok THEN Min(MarkPrices) ELSE tick_size
            /\ dg_i' = 1
            /\ mp_log' = mp_log
    /\ cyc' = Ran(cyc)
    /\ UNCHANGED <<active_orders, mo_vars, mp_resp, direction, tp_price,
                   tp_quantity, new_tp, co_side, co_ret, co_list, sell_order, removed, obs>>

\* lines 248-269: the mark price is answered and the first SELL is requested,
\* or the price is None and draw_grid returns (then lines 523 and 483)
draw_grid_price ==
    /\ UNCHANGED other_vars
    /\ mp_pc = "dg_mark"
    /\ \/ \E price \in MarkPrices :
            /\ Answer(TRUE)
            /\ mp_pc' = "dg_sell"
            /\ current_price' = price
            /\ dg_i' = 1
            /\ mp_log' = mp_log
       \/ /\ Answer(FALSE)
          /\ mp_pc' = "mp_dir"
          /\ mp_log' = <<>>
          /\ UNCHANGED <<current_price, dg_i>>
    /\ cyc' = Ran(cyc)
    /\ UNCHANGED <<active_orders, mo_vars, mp_resp, direction, tp_price,
                   tp_quantity, new_tp, co_side, co_ret, co_list, sell_order, removed, obs>>

\* line 269: the SELL order is accepted and kept in sell_order; line 270 is
\* requested
draw_grid_sell ==
    /\ UNCHANGED other_vars
    /\ mp_pc = "dg_sell"
    /\ ExchangeAccepts(SIDE_SELL, grid_sell_price(current_price, dg_i), volume, "grid")
    /\ sell_order' = nextId
    /\ mp_pc' = "dg_buy"
    /\ cyc' = Foreign(Ran(cyc))
    /\ UNCHANGED <<active_orders, mo_vars, mp_resp, direction, tp_price, tp_quantity,
                   new_tp, co_side, co_ret, co_list, dg_i, current_price,
                   removed, mp_log, obs>>

\* line 269: place_limit_order returns None
draw_grid_sell_fail ==
    /\ UNCHANGED other_vars
    /\ mp_pc = "dg_sell"
    /\ ExchangeFails
    /\ sell_order' = None
    /\ mp_pc' = "dg_buy"
    /\ cyc' = Ran(cyc)
    /\ UNCHANGED <<active_orders, mo_vars, mp_resp, direction, tp_price,
                   tp_quantity, new_tp, co_side, co_ret, co_list, dg_i, current_price,
                   removed, mp_log, obs>>

\* line 270: the BUY order is accepted
draw_grid_buy_X ==
    /\ UNCHANGED other_vars
    /\ mp_pc = "dg_buy"
    /\ ExchangeAccepts(SIDE_BUY, grid_buy_price(current_price, dg_i), volume, "grid")
    /\ mp_resp' = nextId
    /\ mp_pc' = "dg_buy_r"
    /\ cyc' = Foreign(Ran(cyc))
    /\ UNCHANGED <<active_orders, mo_vars, direction, tp_price, tp_quantity, new_tp,
                   co_side, co_ret, co_list, dg_i, current_price, sell_order,
                   removed, mp_log, obs>>

\* lines 271-274 with buy_order, then the next level, or the return and
\* lines 523 and 483
draw_grid_level(buy_order) ==
    /\ mp_resp' = None
    /\ IF buy_order # None THEN UNCHANGED exch_vars ELSE ExchangeFails
    /\ LET with_sell == IF sell_order # None
                        THEN DictSet(active_orders, sell_order,
                                     [side |-> SIDE_SELL,
                                      price |-> grid_sell_price(current_price, dg_i)])
                        ELSE active_orders
       IN  active_orders' = IF buy_order # None
                            THEN DictSet(with_sell, buy_order,
                                         [side |-> SIDE_BUY,
                                          price |-> grid_buy_price(current_price, dg_i)])
                            ELSE with_sell
    /\ sell_order' = None
    /\ IF dg_i < num_of_grids
       THEN /\ mp_pc' = "dg_sell"
            /\ dg_i' = dg_i + 1
            /\ UNCHANGED <<current_price, mp_log>>
       ELSE /\ mp_pc' = "mp_dir"
            /\ dg_i' = 0
            /\ current_price' = None
            /\ mp_log' = <<>>
    /\ cyc' = Ran(cyc)
    /\ UNCHANGED <<mo_vars, direction, tp_price, tp_quantity, new_tp,
                   co_side, co_ret, co_list, removed, obs>>

draw_grid_bought ==
    /\ UNCHANGED other_vars
    /\ mp_pc = "dg_buy_r"
    /\ draw_grid_level(mp_resp)

\* line 270: place_limit_order returns None
draw_grid_buy_fail ==
    /\ UNCHANGED other_vars
    /\ mp_pc = "dg_buy"
    /\ draw_grid_level(None)


\* ======================================================== src/bot.py
\* run_bot, one thread per symbol.  Every exchange call blocks the thread and
\* is one step.  `bot` holds the locals of run_bot and of the function it is
\* in:
\*   pc             "open" (line 206), "mark" (124), "sell" (136), "buy" (148),
\*                  "dir" (212), "calc" (221), "tp" (223), "in_calc" (228),
\*                  "in_tp" (232), "in_dir" (238), "co_list" (76), "co_cancel" (81)
\*   direction, tp_price, tp_amount, new_tp_price, new_tp_amount   of run_bot
\*   current_price, i     of draw_grid (i counts the iterations of a for loop)
\*   side, list     of cancel_orders (side "" is side=None)
\*   ret            where cancel_orders returns: "init" (line 221), "update"
\*                  (232) or "flat" (242, the break and line 206)
\* bot_config['proportion'], scaled to the integer prices of the model
proportion == 10

NoBot == [pc |-> "idle", direction |-> "FLAT", tp_price |-> None, tp_amount |-> None,
          new_tp_price |-> None, new_tp_amount |-> None, current_price |-> None,
          i |-> 0, side |-> "", list |-> <<>>, ret |-> ""]

BotStart == [NoBot EXCEPT !.pc = "open"]

\* round(n / d) of Python 3 for d > 0: to the nearest integer, a tie to the
\* even one
round_half_even(n, d) ==
    LET q == n \div d
        r == n % d
    IN  IF 2 * r < d THEN q
        ELSE IF 2 * r > d THEN q + 1
        ELSE IF q % 2 = 0 THEN q ELSE q + 1

\* lines 129-138 and 141-150: the price of iteration i (1, 2, ...) of the SELL
\* loop (pct_change = i, adj_sell = 1.2 + 0.2 (i - 1)) and of the BUY loop
\* (pct_change = -i, adj_buy = 1.2 - 0.2 (i - 1)); adj is counted in tenths
bot_sell_price(price, i) ==
    round_half_even(i * price * (12 + 2 * (i - 1)) * proportion + 1000 * price, 1000)

bot_buy_price(price, i) ==
    round_half_even((-i) * price * (12 - 2 * (i - 1)) * proportion + 1000 * price, 1000)

\* get_position_direction, lines 88-104; FLAT when the query raises
bot_position_direction(ok) ==
    IF ~ok THEN "FLAT"
    ELSE IF positionAmt > 0 THEN "Long"
    ELSE IF positionAmt < 0 THEN "Short" ELSE "FLAT"

\* calculate_take_profit_level, lines 154-183: (None, None) without a
\* position and when the query raises
bot_take_profit_level(ok) ==
    IF ~ok \/ positionAmt = 0 THEN [price |-> None, amount |-> None]
    ELSE [price |-> round_half_even(
                        entryPrice * 100 * leverage
                            + Sign(positionAmt) * entryPrice * take_profit_percent,
                        100 * leverage),
          amount |-> Abs(positionAmt)]

\* lines 216 and 231, and line 187
bot_opposing_side(dir) == IF dir = "Long" THEN SIDE_SELL ELSE SIDE_BUY

\* cancel_orders(side) is called
bot_cancel_orders_call(side, ret) == [bot EXCEPT !.pc = "co_list", !.side = side, !.ret = ret]

\* cancel_orders returns
bot_cancel_orders_return ==
    [bot EXCEPT !.pc = IF bot.ret = "init" THEN "calc"
                       ELSE IF bot.ret = "update" THEN "in_tp" ELSE "open",
                !.side = "", !.list = <<>>, !.ret = ""]

\* lines 206-209: the open orders are answered (none: draw_grid); a raise
\* goes to line 249 and, after the sleep, back to line 206
run_bot_open_orders ==
    /\ bot.pc = "open"
    /\ \/ /\ Answer(TRUE)
          /\ bot' = [bot EXCEPT !.pc = IF open = {} THEN "mark" ELSE "dir"]
       \/ /\ Answer(FALSE)
          /\ bot' = bot
    /\ UNCHANGED <<v3_vars, hft, call>>

\* lines 124-126
bot_draw_grid_price ==
    /\ bot.pc = "mark"
    /\ \/ \E price \in MarkPrices :
            /\ Answer(TRUE)
            /\ bot' = [bot EXCEPT !.pc = "sell", !.current_price = price, !.i = 1]
       \/ /\ Answer(FALSE)
          /\ bot' = [bot EXCEPT !.pc = "dir"]
    /\ UNCHANGED <<v3_vars, hft, call>>

\* lines 131-138 and 143-150: one placement of draw_grid; place_limit_order
\* logs a failure and returns
bot_draw_grid_order ==
    /\ bot.pc \in {"sell", "buy"}
    /\ \/ IF bot.pc = "sell"
          THEN ExchangeAccepts(SIDE_SELL, bot_sell_price(bot.current_price, bot.i),
                               volume, "grid")
          ELSE ExchangeAccepts(SIDE_BUY, bot_buy_price(bot.current_price, bot.i),
                               volume, "grid")
       \/ ExchangeFails
    /\ bot' = IF bot.i < num_of_grids THEN [bot EXCEPT !.i = @ + 1]
              ELSE IF bot.pc = "sell" THEN [bot EXCEPT !.pc = "buy", !.i = 1]
              ELSE [bot EXCEPT !.pc = "dir", !.i = 0, !.current_price = None]
    /\ UNCHANGED <<v3_vars, hft, call>>

\* lines 212-218 and 245-248
run_bot_direction ==
    /\ bot.pc = "dir"
    /\ \E ok \in BOOLEAN :
        /\ Answer(ok)
        /\ bot' = IF bot_position_direction(ok) # "FLAT"
                  THEN [bot_cancel_orders_call(bot_opposing_side(bot_position_direction(ok)),
                                               "init")
                            EXCEPT !.direction = bot_position_direction(ok)]
                  ELSE [bot EXCEPT !.pc = "open", !.direction = "FLAT"]
    /\ UNCHANGED <<v3_vars, hft, call>>

\* lines 76-80: the list is answered and filtered; on an empty list
\* df['side'] raises (an empty DataFrame has no columns) and cancel_orders
\* returns, as it does when the query raises
bot_cancel_orders_list ==
    /\ bot.pc = "co_list"
    /\ \/ /\ Answer(TRUE)
          /\ LET todo == IF bot.side # ""
                         THEN SelectSeq(OpenOrderList, LAMBDA id : book[id].side = bot.side)
                         ELSE OpenOrderList
             IN  bot' = IF todo = <<>> THEN bot_cancel_orders_return
                        ELSE [bot EXCEPT !.pc = "co_cancel", !.list = todo]
       \/ /\ Answer(FALSE)
          /\ bot' = bot_cancel_orders_return
    /\ UNCHANGED <<v3_vars, hft, call>>

\* line 81: the order is cancelled and the loop goes on; or the call raises
\* (the order no longer rests, or the request fails) and cancel_orders returns
bot_cancel_order ==
    /\ bot.pc = "co_cancel"
    /\ \/ /\ Head(bot.list) \in open
          /\ book' = DictPop(book, Head(bot.list))
          /\ UNCHANGED <<nextId, positionAmt, entryPrice, fails>>
          /\ bot' = IF Tail(bot.list) = <<>> THEN bot_cancel_orders_return
                    ELSE [bot EXCEPT !.list = Tail(@)]
       \/ /\ IF Head(bot.list) \in open THEN ExchangeFails ELSE UNCHANGED exch_vars
          /\ bot' = bot_cancel_orders_return
    /\ UNCHANGED <<v3_vars, hft, call>>

\* lines 221-223
run_bot_level ==
    /\ bot.pc = "calc"
    /\ \E ok \in BOOLEAN :
        /\ Answer(ok)
        /\ bot' = [bot EXCEPT !.tp_price = bot_take_profit_level(ok).price,
                              !.tp_amount = bot_take_profit_level(ok).amount,
                              !.pc = IF bot_take_profit_level(ok).price # None
                                        /\ bot_take_profit_level(ok).amount # None
                                     THEN "tp" ELSE "in_calc"]
    /\ UNCHANGED <<v3_vars, hft, call>>

\* line 223: place_take_profit_order(tp_price, tp_amount, direction)
run_bot_take_profit ==
    /\ bot.pc = "tp"
    /\ \/ ExchangeAccepts(bot_opposing_side(bot.direction), bot.tp_price,
                          bot.tp_amount, "tp")
       \/ ExchangeFails
    /\ bot' = [bot EXCEPT !.pc = "in_calc"]
    /\ UNCHANGED <<v3_vars, hft, call>>

\* lines 228-231
run_bot_inner_level ==
    /\ bot.pc = "in_calc"
    /\ \E ok \in BOOLEAN :
        /\ Answer(ok)
        /\ LET new == bot_take_profit_level(ok) IN
           bot' = IF new.price # bot.tp_price \/ new.amount # bot.tp_amount
                  THEN [bot_cancel_orders_call(bot_opposing_side(bot.direction), "update")
                            EXCEPT !.new_tp_price = new.price,
                                   !.new_tp_amount = new.amount]
                  ELSE [bot EXCEPT !.pc = "in_dir",
                                   !.new_tp_price = new.price,
                                   !.new_tp_amount = new.amount]
    /\ UNCHANGED <<v3_vars, hft, call>>

\* lines 232-233: place_take_profit_order(new_tp_price, new_tp_amount,
\* direction), whatever the two are; futures_create_order without a price and
\* a quantity is rejected by the exchange
run_bot_inner_take_profit ==
    /\ bot.pc = "in_tp"
    /\ \/ /\ bot.new_tp_price # None
          /\ bot.new_tp_amount # None
          /\ ExchangeAccepts(bot_opposing_side(bot.direction), bot.new_tp_price,
                             bot.new_tp_amount, "tp")
       \/ /\ bot.new_tp_price # None
          /\ ExchangeFails
       \/ /\ bot.new_tp_price = None
          /\ UNCHANGED exch_vars
    /\ bot' = [bot EXCEPT !.pc = "in_dir",
                          !.tp_price = bot.new_tp_price,
                          !.tp_amount = bot.new_tp_amount]
    /\ UNCHANGED <<v3_vars, hft, call>>

\* lines 238-244
run_bot_inner_direction ==
    /\ bot.pc = "in_dir"
    /\ \E ok \in BOOLEAN :
        /\ Answer(ok)
        /\ bot' = IF bot_position_direction(ok) = "FLAT"
                  THEN bot_cancel_orders_call("", "flat")
                  ELSE [bot EXCEPT !.pc = "in_calc"]
    /\ UNCHANGED <<v3_vars, hft, call>>

\* ============================================ src/v7 - binance/hft.py
\* draw_adaptive_grid and what it reads.  Prices and the ATR are integers in
\* units of half a tick, so a level can fall between two ticks.
\*   pc             "atr" (line 197), "mark" (198), "place" (205-211), "done"
\*   num_of_grids   config.num_of_grids
\*   grid_spacing   self.grid_spacing
\*   current_price  the answer of get_mark_price
\*   grid_levels    the array of line 203
\*   k              how many levels the for loop of line 205 has been through
\*   submitted      the orders sent to place_limit_order, in order
\*   active_orders  self.active_orders
\*   nextId         next orderId of the exchange
\*   open           the orderIds resting on the exchange
\* and monitor_orders:
\*   mo_pc          "fetch" (line 271), "loop" (lines 276-291)
\*   mo_filled      the ids of filled_order_ids the for loop has not been through
\*   order_info     the entry popped last (line 277)
\*   new_order      the replacement requested last (lines 283-284, 288-289)
hft_tick_size == 2

\* config.grid_multiplier, in tenths (0.1 in main)
grid_multiplier_tenths == 1

\* largest config.num_of_grids tried
MaxGrids == 2

\* what calculate_atr returns (0 is also its answer to every exception, line 188)
Atrs == {0, 10, 20, 30}

\* what futures_mark_price answers
HftMarkPrices == {20, 21}

\* Number of order ids the v7 exchange hands out before the model stops.
HftMaxOrders == 5

NoInfo == [side |-> "", price |-> None]

NoHft == [pc |-> "idle", num_of_grids |-> 0, grid_spacing |-> 0, current_price |-> None,
          grid_levels |-> <<>>, k |-> 0, submitted |-> <<>>,
          active_orders |-> <<>>, nextId |-> 1, open |-> {},
          mo_pc |-> "idle", mo_filled |-> {}, order_info |-> NoInfo, new_order |-> NoInfo]

\* line 203: np.arange(-N, N + 1) * grid_spacing + current_price
arange_levels(N, spacing, price) == [j \in 1 .. (2 * N + 1) |-> (j - N - 1) * spacing + price]

\* lines 206-208: the order of one level
hft_level_order(price, mark_price) ==
    [side |-> IF round_step_size(price, hft_tick_size) < mark_price
              THEN SIDE_BUY ELSE SIDE_SELL,
     price |-> round_step_size(price, hft_tick_size),
     qty |-> round_step_size(volume, volume)]

\* lines 191-194: adjust_grid with the ATR that calculate_atr returns
hft_adjust_grid ==
    /\ hft.pc = "atr"
    /\ \E atr \in Atrs :
        hft' = [hft EXCEPT !.pc = "mark",
                           !.grid_spacing = (atr * grid_multiplier_tenths) \div 10]
    /\ UNCHANGED <<exch_vars, v3_vars, bot, call>>

\* lines 198-203: the mark price is answered and the levels are laid out, or
\* it is None and draw_adaptive_grid returns
hft_mark_price ==
    /\ hft.pc = "mark"
    /\ \/ \E price \in HftMarkPrices :
            hft' = [hft EXCEPT !.pc = "place",
                               !.current_price = price,
                               !.grid_levels = arange_levels(hft.num_of_grids,
                                                             hft.grid_spacing, price)]
       \/ hft' = [hft EXCEPT !.pc = "done"]
    /\ UNCHANGED <<exch_vars, v3_vars, bot, call>>

\* lines 205-211: the next level is sent to place_limit_order, which answers
\* with an order (entered in active_orders) or with None
hft_place_level ==
    /\ hft.pc = "place"
    /\ hft.k < Len(hft.grid_levels)
    /\ LET order == hft_level_order(hft.grid_levels[hft.k + 1], hft.current_price)
           last == hft.k + 1 = Len(hft.grid_levels)
       IN  \E accepted \in BOOLEAN :
             hft' = [hft EXCEPT
                       !.k = @ + 1,
                       !.pc = IF last THEN "done" ELSE "place",
                       !.submitted = Append(@, order),
                       !.nextId = IF accepted THEN @ + 1 ELSE @,
                       !.open = IF accepted THEN @ \cup {hft.nextId} ELSE @,
                       !.active_orders =
                           IF accepted
                           THEN DictSet(@, hft.nextId,
                                        [side |-> order.side, price |-> order.price])
                           ELSE @]
    /\ UNCHANGED <<exch_vars, v3_vars, bot, call>>

\* ---- monitor_orders of v7
\* lines 282-288: the price of the replacement of a vanished entry
hft_replacement_price(order_info, grid_spacing) ==
    IF order_info.side = SIDE_SELL
    THEN round_step_size(order_info.price + grid_spacing, hft_tick_size)
    ELSE round_step_size(order_info.price - grid_spacing, hft_tick_size)

\* a resting order of the v7 bot is filled
hft_fill ==
    /\ \E id \in hft.open : hft' = [hft EXCEPT !.open = @ \ {id}]
    /\ UNCHANGED <<exch_vars, v3_vars, bot, call>>

\* lines 271-274: the open orders are answered and filled_order_ids is
\* computed; with none the cycle ends in sleep(0.5)
hft_monitor_orders_fetch ==
    /\ hft.mo_pc = "fetch"
    /\ LET filled == filled_order_ids(hft.active_orders, hft.open)
       IN  /\ filled # {}
           /\ hft' = [hft EXCEPT !.mo_pc = "loop", !.mo_filled = filled]
    /\ UNCHANGED <<exch_vars, v3_vars, bot, call>>

\* lines 276-291 for one id: the entry is popped, its replacement is sent to
\* place_limit_order, which answers with an order (entered in active_orders)
\* or with None.  (Nothing else pops an entry, so every id of the loop is
\* found; what the other task and the exchange do during the await of lines
\* 284/289 touches other keys, so the step is taken as one.)
hft_monitor_orders_replace ==
    /\ hft.mo_pc = "loop"
    /\ \E order_id \in hft.mo_filled, accepted \in BOOLEAN :
        LET order_info == hft.active_orders[order_id]
            price == hft_replacement_price(order_info, hft.grid_spacing)
            rest == hft.mo_filled \ {order_id}
        IN  /\ accepted => hft.nextId <= HftMaxOrders
            /\ hft' = [hft EXCEPT
                         !.mo_filled = rest,
                         !.mo_pc = IF rest = {} THEN "fetch" ELSE "loop",
                         !.order_info = order_info,
                         !.new_order = [side |-> order_info.side, price |-> price],
                         !.nextId = IF accepted THEN @ + 1 ELSE @,
                         !.open = IF accepted THEN @ \cup {hft.nextId} ELSE @,
                         !.active_orders =
                             IF accepted
                             THEN DictSet(DictPop(@, order_id), hft.nextId,
                                          [side |-> order_info.side, price |-> price])
                             ELSE DictPop(@, order_id)]
    /\ UNCHANGED <<exch_vars, v3_vars, bot, call>>

\* a bot configured with N grids, its ledger empty, calls draw_adaptive_grid
HftStart == {[NoHft EXCEPT !.pc = "atr", !.mo_pc = "fetch", !.num_of_grids = N] :
                 N \in 1 .. MaxGrids}
\* ============================ single calls of functions of the v3 bot
\* call.fn is the function, call.pc is "call" until it returns and "done"
\* after; the other fields are what the exchange answers and what the
\* function returns.
NoCall == [fn |-> "none"]

\* config.symbol, and another symbol of the exchange
symbol == "BTCUSDT"
Symbols == {"BTCUSDT", "ETHUSDT"}

\* ---- get_position_direction
\* Largest amount in a position record, in units of the quantity step, and
\* the longest answer of futures_position_information.
MaxAmt == 2
MaxPositions == 2

\* positionAmt as the exchange writes it: a decimal string, that is a sign and
\* digits ("0.5", "-0.3", "0.0", "-0.0")
AmtStrings == [neg : BOOLEAN, digits : 0 .. MaxAmt]

\* float(position['positionAmt']); -0.0 compares equal to 0
float(str) == IF str.neg THEN 0 - str.digits ELSE str.digits

PositionRecords == [symbol : Symbols, positionAmt : AmtStrings]

PositionLists == UNION {[1 .. n -> PositionRecords] : n \in 0 .. MaxPositions}

\* lines 188-204: the first record of the symbol decides; line 205 without one
RECURSIVE direction_of_positions(_)
direction_of_positions(positions) ==
    IF positions = <<>> THEN "FLAT"
    ELSE IF Head(positions).symbol = symbol
         THEN position_direction(float(Head(positions).positionAmt))
         ELSE direction_of_positions(Tail(positions))

GetPositionDirectionCalls ==
    {[fn |-> "get_position_direction", pc |-> "call", positions |-> ps, ret |-> ""] :
         ps \in PositionLists}

\* lines 187-205: futures_position_information is answered
get_position_direction_returns ==
    /\ call.fn = "get_position_direction"
    /\ call.pc = "call"
    /\ call' = [call EXCEPT !.pc = "done", !.ret = direction_of_positions(call.positions)]
    /\ UNCHANGED <<exch_vars, v3_vars, bot, hft>>

\* lines 206-216: futures_position_information raises
get_position_direction_raises ==
    /\ call.fn = "get_position_direction"
    /\ call.pc = "call"
    /\ call' = [call EXCEPT !.pc = "raised", !.ret = "FLAT"]
    /\ UNCHANGED <<exch_vars, v3_vars, bot, hft>>

\* ---- calculate_take_profit_level (v3, and v1 - originalone - with volume)
\* Prices are counted in price steps, amounts in quantity steps, and
\* config.take_profit_percent in halves of a percent.
EntryPrices == {7, 33, 500000}

\* config.leverage, and the leverage of a position record: <<>> when the
\* record has no such key, <<n>> when it reports n
ConfigLeverages == {-1, 0, 1, 3, 10}
ReportedLeverages == {<<>>, <<-1>>, <<0>>, <<1>>, <<10>>}

\* config.take_profit_percent in halves of a percent (0.5 and 10)
PercentHalves == {1, 20}

TpPositionRecords == [symbol : Symbols, positionAmt : AmtStrings,
                      entryPrice : EntryPrices, leverage : ReportedLeverages]

\* what futures_position_information answers for one symbol: no record or one
TpPositionLists == {<<>>} \cup {<<p>> : p \in TpPositionRecords}

\* line 360 (v1 line 251): the records of the symbol with a non-zero amount
open_positions(positions) ==
    SelectSeq(positions, LAMBDA p : p.symbol = symbol /\ float(p.positionAmt) # 0)

\* lines 373-378 with the margin not divided by the leverage
take_profit_target_unlevered(entry_price, position_amt, lev, percent_halves) ==
    LET unit == 200 * Abs(position_amt)
        profit == entry_price * Abs(position_amt) * percent_halves
        tp == IF position_amt > 0 THEN entry_price * unit + profit
                                  ELSE entry_price * unit - profit
    IN  IF lev = 0 \/ position_amt = 0 THEN NoTp
        ELSE IF round_step_size(tp, tick_size * unit) = 0 THEN NoTp
        ELSE [price |-> round_step_size(tp, tick_size * unit) \div unit,
              qty |-> Abs(position_amt)]

\* lines 373-398 (v1 lines 265-282) on an entry price, an amount, a leverage
\* and a percentage.  A leverage of zero raises ZeroDivisionError at line 374,
\* which line 407 (v1 line 283) answers with (None, None).  The price is
\* computed exactly, in units of 1/(200 * |lev| * |amt|) price step, and
\* then cut to the price step by round_step_size.
take_profit_target(entry_price, position_amt, lev, percent_halves) ==
    LET unit == 200 * Abs(lev) * Abs(position_amt)
        profit == Sign(lev) * entry_price * Abs(position_amt) * percent_halves
        tp == IF position_amt > 0 THEN entry_price * unit + profit
                                  ELSE entry_price * unit - profit
    IN  IF lev = 0 \/ position_amt = 0 THEN NoTp
        ELSE IF round_step_size(tp, tick_size * unit) = 0 THEN NoTp
        ELSE [price |-> round_step_size(tp, tick_size * unit) \div unit,
              qty |-> Abs(position_amt)]

\* v1 lines 257-263: the leverage of the record, 1 without one or when it is
\* not above zero
v1_leverage(position) ==
    IF position.leverage = <<>> THEN 1
    ELSE IF position.leverage[1] <= 0 THEN 1
    ELSE position.leverage[1]

\* v3 line 368: the leverage of the configuration
v3_leverage(config) == config.leverage

CalculateTakeProfitCalls ==
    {[fn |-> "calculate_take_profit_level", pc |-> "call", version |-> v,
      positions |-> ps,
      config |-> [leverage |-> l, take_profit_percent |-> t],
      ret |-> NoTp] :
         v \in {"v1", "v3"}, ps \in TpPositionLists,
         l \in ConfigLeverages, t \in PercentHalves}

\* v3 lines 359-398 and 407-410: futures_position_information is answered
calculate_take_profit_level_returns ==
    /\ call.fn = "calculate_take_profit_level"
    /\ call.version = "v3"
    /\ call.pc = "call"
    /\ LET own == open_positions(call.positions) IN
       call' = [call EXCEPT
                  !.pc = "done",
                  !.ret = IF own = <<>> THEN NoTp
                          ELSE take_profit_target(own[1].entryPrice,
                                                  float(own[1].positionAmt),
                                                  v3_leverage(call.config),
                                                  call.config.take_profit_percent)]
    /\ UNCHANGED <<exch_vars, v3_vars, bot, hft>>

\* v1 lines 250-285: futures_position_information is answered
v1_calculate_take_profit_level_returns ==
    /\ call.fn = "calculate_take_profit_level"
    /\ call.version = "v1"
    /\ call.pc = "call"
    /\ LET own == open_positions(call.positions) IN
       call' = [call EXCEPT
                  !.pc = "done",
                  !.ret = IF own = <<>> THEN NoTp
                          ELSE take_profit_target(own[1].entryPrice,
                                                  float(own[1].positionAmt),
                                                  v1_leverage(own[1]),
                                                  call.config.take_profit_percent)]
    /\ UNCHANGED <<exch_vars, v3_vars, bot, hft>>

\* v3 lines 399-410 (v1 lines 283-285): futures_position_information raises
calculate_take_profit_level_raises ==
    /\ call.fn = "calculate_take_profit_level"
    /\ call.pc = "call"
    /\ call' = [call EXCEPT !.pc = "raised", !.ret = NoTp]
    /\ UNCHANGED <<exch_vars, v3_vars, bot, hft>>

\* ---- run, initialize_client, set_leverage, get_tick_size
\*   pc             "create" (line 102), "leverage" (112), "tick" (134),
\*                  "gather" (543), "running", "exited" (sys.exit)
\*   exchange_info  what futures_exchange_info will answer (until it has)
\*   client         self.client is set
\*   tick_size      self.tick_size
\*   status         the exit status of the process once pc is "exited"
\*   error          what was logged before the exit
\* The filters of a symbol in the answer of futures_exchange_info.
PRICE_FILTER == [filterType |-> "PRICE_FILTER", tickSize |-> tick_size]
LOT_SIZE == [filterType |-> "LOT_SIZE", tickSize |-> None]
FilterLists == {<<>>, <<LOT_SIZE>>, <<PRICE_FILTER>>, <<LOT_SIZE, PRICE_FILTER>>}

\* the answers: each symbol is listed, with one of the filter lists, or is not
ExchangeInfos ==
    {SelectSeq(<<b, e>>, LAMBDA s : s.symbol # "") :
         b \in {[symbol |-> "", filters |-> <<>>]}
                   \cup [symbol : {"BTCUSDT"}, filters : FilterLists],
         e \in {[symbol |-> "", filters |-> <<>>]}
                   \cup [symbol : {"ETHUSDT"}, filters : FilterLists]}

\* lines 135-142: the tickSize of the first PRICE_FILTER of the symbol's
\* entry, None when there is no entry or no such filter
resolve_tick_size(exchange_info) ==
    LET symbol_info == SelectSeq(exchange_info, LAMBDA s : s.symbol = symbol)
        filters == IF symbol_info = <<>> THEN <<>>
                   ELSE SelectSeq(symbol_info[1].filters,
                                  LAMBDA f : f.filterType = "PRICE_FILTER")
    IN  IF filters = <<>> THEN None ELSE filters[1].tickSize

RunCalls ==
    {[fn |-> "run", pc |-> "create", exchange_info |-> info, client |-> FALSE,
      tick_size |-> None, status |-> 0, error |-> "", closed |-> FALSE] :
     info \in ExchangeInfos}

\* sys.exit(1): SystemExit leaves initialize_client and run (line 541 is
\* outside the try of run) and ends the process
SystemExit(status, error) ==
    call' = [call EXCEPT !.pc = "exited", !.status = status, !.error = error,
                         !.exchange_info = <<>>]

startup_leaves_alone ==
    UNCHANGED <<exch_vars, v3_vars, bot, hft>>

\* lines 102-109: AsyncClient.create answers
initialize_client_create ==
    /\ call.fn = "run"
    /\ call.pc = "create"
    /\ call' = [call EXCEPT !.pc = "leverage", !.client = TRUE]
    /\ startup_leaves_alone

\* line 102 raises: lines 116-127
initialize_client_create_raises ==
    /\ call.fn = "run"
    /\ call.pc = "create"
    /\ SystemExit(1, "Unexpected error during client initialization")
    /\ startup_leaves_alone

\* lines 163-178: futures_change_leverage answers, or raises and the
\* exception is logged; either way initialize_client goes on to line 115
set_leverage ==
    /\ call.fn = "run"
    /\ call.pc = "leverage"
    /\ call' = [call EXCEPT !.pc = "tick"]
    /\ startup_leaves_alone

\* lines 134-145 answered but the exit of line 145 left out: the bot goes on
\* without a tick size
get_tick_size_goes_on ==
    /\ call.fn = "run"
    /\ call.pc = "tick"
    /\ call' = [call EXCEPT !.pc = "gather",
                            !.tick_size = resolve_tick_size(call.exchange_info),
                            !.exchange_info = <<>>]
    /\ startup_leaves_alone

\* lines 134-145: futures_exchange_info answers; the tick size is set and
\* initialize_client returns, or there is none and line 145 exits
get_tick_size ==
    /\ call.fn = "run"
    /\ call.pc = "tick"
    /\ IF resolve_tick_size(call.exchange_info) # None
       THEN call' = [call EXCEPT !.pc = "gather",
                                 !.tick_size = resolve_tick_size(call.exchange_info),
                                 !.exchange_info = <<>>]
       ELSE SystemExit(1, "Could not retrieve tick size")
    /\ startup_leaves_alone

\* line 134 raises: lines 146-157
get_tick_size_raises ==
    /\ call.fn = "run"
    /\ call.pc = "tick"
    /\ SystemExit(1, "Unexpected error fetching exchange info")
    /\ startup_leaves_alone

\* lines 543-546: both tasks are started and run to their first await
run_gather ==
    /\ call.fn = "run"
    /\ call.pc = "gather"
    /\ call' = [call EXCEPT !.pc = "running"]
    /\ mo_pc' = "mo_fetch"
    /\ mp_pc' = "mp_dir"
    /\ UNCHANGED <<exch_vars, active_orders, mo_open, mo_filled, mo_cur, mo_resp,
                   mp_resp, direction, tp_price, tp_quantity, new_tp,
                   co_side, co_ret, co_list, dg_i, current_price, sell_order,
                   hist_vars, bot, hft>>


\* lines 543-546 at shutdown: the CancelledError thrown into run reaches the
\* gather, which cancels both tasks at the await they stand at (their frames
\* and locals are gone; CancelledError passes their except clauses, lines
\* 461-472 and 523-535, and line 547); nothing is sent to the exchange
run_cancelled ==
    /\ call.fn = "run"
    /\ call.pc = "running"
    /\ call' = [call EXCEPT !.pc = "finally"]
    /\ mo_pc' = "cancelled"
    /\ mp_pc' = "cancelled"
    /\ mo_open' = {}
    /\ mo_filled' = {}
    /\ mo_cur' = NoCur
    /\ mo_resp' = None
    /\ mp_resp' = None
    /\ direction' = "FLAT"
    /\ tp_price' = None
    /\ tp_quantity' = None
    /\ new_tp' = NoTp
    /\ co_side' = ""
    /\ co_ret' = ""
    /\ co_list' = <<>>
    /\ dg_i' = 0
    /\ current_price' = None
    /\ sell_order' = None
    /\ UNCHANGED <<exch_vars, active_orders, hist_vars, bot, hft>>

\* the finally clause left without the call of line 552
run_finally_unclosed ==
    /\ call.fn = "run"
    /\ call.pc = "finally"
    /\ call' = [call EXCEPT !.pc = "returned"]
    /\ startup_leaves_alone

\* lines 550-554: the finally clause closes the connection of the client and
\* run is over
run_finally ==
    /\ call.fn = "run"
    /\ call.pc = "finally"
    /\ call' = [call EXCEPT !.pc = "returned", !.closed = call.client]
    /\ startup_leaves_alone

\* ---------------------------------------------------------- monitor_pnl
\* (src/v4 - hft - NET pnL - enhanced - working/binance_hft_market_maker.py)
\* lines 101-110: the table starts with its columns and no row
PnlCall == [fn |-> "monitor_pnl", table |-> <<>>, error |-> ""]

\* n / d cut to the nearest integer, d > 0 (the two decimals of line 437; the
\* quotients met here are never half way between two hundredths)
nearest(n, d) == ((2 * n) + d) \div (2 * d)

\* lines 422-438: the row of an open position; the exchange reports the
\* unrealized profit (mark_price - entry_price) * position_amt; PnL (%) is
\* kept in hundredths of a percent
position_row(position_amt, entry_price, mark_price) ==
    LET unrealized_pnl == (mark_price - entry_price) * position_amt IN
    [found |-> TRUE,
     position |-> position_amt,
     entry |-> entry_price,
     mark |-> mark_price,
     pnl |-> unrealized_pnl,
     percent |-> nearest(unrealized_pnl * 10000, entry_price * Abs(position_amt))]

\* lines 444-453: the row shown without a position ("0" and dashes)
flat_row ==
    [found |-> FALSE, position |-> 0, entry |-> None, mark |-> None,
     pnl |-> None, percent |-> None]

\* one iteration that forgets the ledger when it shows the flat row
monitor_pnl_resets_ledger ==
    /\ call.fn = "monitor_pnl"
    /\ \E ok \in BOOLEAN, mark_price \in MarkPrices :
        /\ Answer(ok)
        /\ call' =
             IF ~ok
             THEN [call EXCEPT !.error = "Error in monitor_pnl"]
             ELSE IF positionAmt = 0
             THEN [call EXCEPT !.table = <<flat_row>>]
             ELSE IF entryPrice = 0
             THEN [call EXCEPT !.error = "Error in monitor_pnl"]
             ELSE [call EXCEPT !.table =
                       <<position_row(positionAmt, entryPrice, mark_price)>>]
        /\ active_orders' = IF ok /\ positionAmt = 0 THEN <<>> ELSE active_orders
    /\ UNCHANGED <<mo_vars, mp_vars, hist_vars, bot, hft>>

\* lines 418-461, one iteration: the positions are queried; the first record
\* of the symbol with a non-zero amount becomes the only row of the table
\* (a zero entry price raises at line 425), without one the flat row is
\* shown; every exception is logged (lines 459-461) and the table stays
monitor_pnl ==
    /\ call.fn = "monitor_pnl"
    /\ \E ok \in BOOLEAN, mark_price \in MarkPrices :
        /\ Answer(ok)
        /\ call' =
             IF ~ok
             THEN [call EXCEPT !.error = "Error in monitor_pnl"]
             ELSE IF positionAmt = 0
             THEN [call EXCEPT !.table = <<flat_row>>]
             ELSE IF entryPrice = 0
             THEN [call EXCEPT !.error = "Error in monitor_pnl"]
             ELSE [call EXCEPT !.table =
                       <<position_row(positionAmt, entryPrice, mark_price)>>]
    /\ UNCHANGED <<active_orders, mo_vars, mp_vars, hist_vars, bot, hft>>

\* lines 391-400 of the same file: its monitor_position has no take-profit
\* part; after cancel_orders(side=opposing_side) it sleeps and starts over
\* at line 382
v4_monitor_position_sleep ==
    /\ call.fn = "monitor_pnl"
    /\ mp_pc = "mp_calc"
    /\ mp_pc' = "mp_dir"
    /\ mp_log' = <<>>
    /\ cyc' = Ran(cyc)
    /\ UNCHANGED <<exch_vars, active_orders, mo_vars, mp_resp, direction,
                   tp_price, tp_quantity, new_tp, co_side, co_ret, co_list,
                   dg_i, current_price, sell_order, removed, obs, other_vars>>
\* ------------------------------------------------------- the environment
\* A resting order is filled: it leaves the book and moves the position.
Fill ==
    \E id \in open :
        /\ Abs(FilledAmt(id)) <= MaxPos
        /\ book' = DictPop(book, id)
        /\ positionAmt' = FilledAmt(id)
        /\ entryPrice' = FilledEntry(id)
        /\ cyc' = Foreign(cyc)
        /\ UNCHANGED <<nextId, fails, active_orders, mo_vars, mp_vars,
                       removed, mp_log, obs, other_vars>>

\* ------------------------------------------------------- specification
\* The book the bot finds at startup: empty, or two BUY orders left resting
\* by an earlier run (__init__ starts with an empty ledger either way).
PreOrders == {<<>>,
              <<[side |-> SIDE_BUY, price |-> 8, qty |-> volume, kind |-> "pre"],
                [side |-> SIDE_BUY, price |-> 7, qty |-> volume, kind |-> "pre"]>>}

\* __init__ (lines 92-94) and a flat account
v3_fresh ==
    /\ fails = 0
    /\ positionAmt = 0
    /\ entryPrice = 0
    /\ active_orders = <<>>
    /\ mo_open = {}
    /\ mo_filled = {}
    /\ mo_cur = NoCur
    /\ mo_resp = None
    /\ mp_resp = None
    /\ direction = "FLAT"
    /\ tp_price = None
    /\ tp_quantity = None
    /\ new_tp = NoTp
    /\ co_side = ""
    /\ co_ret = ""
    /\ co_list = <<>>
    /\ dg_i = 0
    /\ current_price = None
    /\ sell_order = None
    /\ removed = {}
    /\ cyc = NoCyc
    /\ mp_log = <<>>
    /\ obs = NoObs

\* ... with both tasks at their first await (lines 437 and 483)
v3_start ==
    /\ v3_fresh
    /\ mo_pc = "mo_fetch"
    /\ mp_pc = "mp_dir"

Init ==
    /\ book \in PreOrders
    /\ nextId = Len(book) + 1
    /\ v3_start
    /\ bot = NoBot
    /\ hft = NoHft
    /\ call = NoCall

Next ==
    \/ monitor_orders_fetch_X
    \/ monitor_orders_fetch_fail
    \/ monitor_orders_resume
    \/ monitor_orders_place_X
    \/ monitor_orders_placed
    \/ monitor_orders_place_fail
    \/ monitor_position_detect
    \/ cancel_orders_list
    \/ cancel_orders_list_fail
    \/ cancel_order_X
    \/ cancel_orders_cancelled
    \/ cancel_order_fail
    \/ monitor_position_level
    \/ take_profit_X
    \/ take_profit_placed
    \/ take_profit_fail
    \/ inner_loop_direction
    \/ inner_loop_level
    \/ draw_grid_price
    \/ draw_grid_sell
    \/ draw_grid_sell_fail
    \/ draw_grid_buy_X
    \/ draw_grid_bought
    \/ draw_grid_buy_fail
    \/ Fill

Spec == Init /\ [][Next]_vars


\* ---- scheduling
\* the steps of the monitor_orders task and of the monitor_position task
monitor_orders_step ==
    \/ monitor_orders_fetch_X
    \/ monitor_orders_fetch_fail
    \/ monitor_orders_resume
    \/ monitor_orders_place_X
    \/ monitor_orders_placed
    \/ monitor_orders_place_fail

monitor_position_step ==
    \/ monitor_position_detect
    \/ cancel_orders_list
    \/ cancel_orders_list_fail
    \/ cancel_order_X
    \/ cancel_orders_cancelled
    \/ cancel_order_fail
    \/ monitor_position_level
    \/ take_profit_X
    \/ take_profit_placed
    \/ take_profit_fail
    \/ inner_loop_direction
    \/ inner_loop_level
    \/ draw_grid_price
    \/ draw_grid_sell
    \/ draw_grid_sell_fail
    \/ draw_grid_buy_X
    \/ draw_grid_bought
    \/ draw_grid_buy_fail

\* asyncio.gather (lines 543-546): the event loop resumes every task whose
\* await has completed, and the exchange answers every request (or the
\* request raises); every sleep ends
FairSpec ==
    /\ Init /\ [][Next]_vars
    /\ WF_vars(monitor_orders_step)
    /\ WF_vars(monitor_position_step)

\* ---- src/bot.py: run_bot of one symbol and the fills of its orders
InitBot ==
    /\ book \in PreOrders
    /\ nextId = Len(book) + 1
    /\ v3_start
    /\ bot = BotStart
    /\ hft = NoHft
    /\ call = NoCall

NextBot ==
    \/ run_bot_open_orders
    \/ bot_draw_grid_price
    \/ bot_draw_grid_order
    \/ run_bot_direction
    \/ bot_cancel_orders_list
    \/ bot_cancel_order
    \/ run_bot_level
    \/ run_bot_take_profit
    \/ run_bot_inner_level
    \/ run_bot_inner_take_profit
    \/ run_bot_inner_direction
    \/ Fill

SpecBot == InitBot /\ [][NextBot]_vars

\* ---- src/v7 - binance/hft.py: one call of draw_adaptive_grid, next to
\* monitor_orders (lines 347-350), and the fills of its orders
InitHft ==
    /\ book = <<>>
    /\ nextId = 1
    /\ v3_start
    /\ bot = NoBot
    /\ hft \in HftStart
    /\ call = NoCall

NextHft ==
    \/ hft_adjust_grid
    \/ hft_mark_price
    \/ hft_place_level
    \/ hft_fill
    \/ hft_monitor_orders_fetch
    \/ hft_monitor_orders_replace

SpecHft == InitHft /\ [][NextHft]_vars

\* ---- one call of get_position_direction on an answer of the exchange
InitDirection ==
    /\ book = <<>>
    /\ nextId = 1
    /\ v3_start
    /\ bot = NoBot
    /\ hft = NoHft
    /\ call \in GetPositionDirectionCalls

NextDirection ==
    \/ get_position_direction_returns
    \/ get_position_direction_raises

SpecDirection == InitDirection /\ [][NextDirection]_vars

\* ---- one call of calculate_take_profit_level on an answer of the exchange
InitTakeProfit ==
    /\ book = <<>>
    /\ nextId = 1
    /\ v3_start
    /\ bot = NoBot
    /\ hft = NoHft
    /\ call \in CalculateTakeProfitCalls

NextTakeProfit ==
    \/ calculate_take_profit_level_returns
    \/ v1_calculate_take_profit_level_returns
    \/ calculate_take_profit_level_raises

SpecTakeProfit == InitTakeProfit /\ [][NextTakeProfit]_vars

\* ---- run: the start of one bot, then its two tasks and the fills
InitStartup ==
    /\ book \in PreOrders
    /\ nextId = Len(book) + 1
    /\ v3_fresh
    /\ mo_pc = "init"
    /\ mp_pc = "init"
    /\ bot = NoBot
    /\ hft = NoHft
    /\ call \in RunCalls

NextStartup ==
    \/ initialize_client_create
    \/ initialize_client_create_raises
    \/ set_leverage
    \/ get_tick_size
    \/ get_tick_size_raises
    \/ run_gather
    \/ Next

SpecStartup == InitStartup /\ [][NextStartup]_vars

\* ---- run from its start to its end: the startup, the tasks, the shutdown
NextShutdown ==
    \/ run_cancelled
    \/ run_finally
    \/ NextStartup

SpecShutdown == InitStartup /\ [][NextShutdown]_vars

\* ---- run of the v4 file: the PnL reporter next to monitor_orders and to
\* monitor_position (which has no take-profit part there), and the fills
InitPnl ==
    /\ book \in PreOrders
    /\ nextId = Len(book) + 1
    /\ v3_start
    /\ bot = NoBot
    /\ hft = NoHft
    /\ call = PnlCall

NextPnl ==
    \/ monitor_pnl
    \/ monitor_orders_fetch_X
    \/ monitor_orders_fetch_fail
    \/ monitor_orders_resume
    \/ monitor_orders_place_X
    \/ monitor_orders_placed
    \/ monitor_orders_place_fail
    \/ monitor_position_detect
    \/ cancel_orders_list
    \/ cancel_orders_list_fail
    \/ cancel_order_X
    \/ cancel_orders_cancelled
    \/ cancel_order_fail
    \/ v4_monitor_position_sleep
    \/ draw_grid_price
    \/ draw_grid_sell
    \/ draw_grid_sell_fail
    \/ draw_grid_buy_X
    \/ draw_grid_bought
    \/ draw_grid_buy_fail
    \/ Fill

SpecPnl == InitPnl /\ [][NextPnl]_vars

\* ================================================================ claims
\* a monitor_orders cycle whose open-order query succeeded reaches line 460
cycle_ends == cyc.last = "run" /\ cyc'.last = "ok"

\* monitor_orders pops an id and requests its replacement (lines 444-456)
submits == cyc'.last = "run" /\ cyc'.popped # cyc.popped

\* ---- C1
\* C1 as stated: every tracked id absent from the list a cycle fetched has had
\* its replacement submitted by monitor_orders when that cycle ends.
C1_every_absent_id_replaced ==
    [][cycle_ends => cyc.filled \subseteq cyc.popped]_vars

\* C1, amended: when the cycle ends, every tracked id that was absent from
\* the fetched list is out of the ledger, and either monitor_orders popped it
\* and submitted one replacement, or cancel_orders popped it first and none
\* was submitted; a replacement is submitted only for an id of this cycle
\* that was never removed before, on the side of the entry, for a SELL at
\* X + tick_size and for a BUY at X - tick_size.
C1_replaced_once_unless_cancelled ==
    [][ /\ cycle_ends =>
            \A id \in cyc.filled :
                /\ id \notin DOMAIN active_orders'
                /\ (id \in cyc.popped) # (id \in cyc.cancelled)
        /\ submits =>
            /\ cyc'.popped = cyc.popped \cup {mo_cur'.id}
            /\ mo_cur'.id \in cyc'.filled
            /\ mo_cur'.id \notin removed
            /\ mo_cur'.id \in DOMAIN active_orders
            /\ mo_cur'.side = active_orders[mo_cur'.id].side
            /\ mo_cur'.price = IF mo_cur'.side = SIDE_SELL
                               THEN active_orders[mo_cur'.id].price + tick_size
                               ELSE active_orders[mo_cur'.id].price - tick_size
      ]_vars

\* the replacement of a SELL rests while cancel_orders has taken another id
\* of the same cycle
C1_witness ==
    /\ mo_pc = "mo_placed"
    /\ mo_cur.side = SIDE_SELL
    /\ mo_resp \in open
    /\ book[mo_resp].price = mo_cur.price
    /\ cyc.cancelled # {}

\* ---- C2
\* C2: a monitor_orders cycle that follows a cycle which ended normally, with
\* nobody else changing the exchange since that cycle's query and with every
\* acknowledged order either resting or already written off by the ledger,
\* submits no order and leaves active_orders as it was.
C2_second_cycle_idle ==
    [][ (cyc.q2 /\ mo_pc = "mo_fetched" /\ mo_pc' # mo_pc) =>
            /\ mo_pc' = "mo_fetch"
            /\ cyc'.last = "ok"
            /\ active_orders' = active_orders
            /\ nextId' = nextId
            /\ removed' = removed
      ]_vars

\* the second cycle has its list; the one before replaced an order
C2_witness ==
    /\ cyc.q2
    /\ mo_pc = "mo_fetched"
    /\ removed # {}
    /\ \E id \in DOMAIN active_orders : book[id].kind = "repl"

\* ---- C3
\* the side whose resting orders go when a position is detected, as C3 has it
C3_side_stated(dir) == IF dir = "LONG" THEN SIDE_BUY ELSE SIDE_SELL

\* the side the code takes
C3_side_taken(dir) == IF dir = "LONG" THEN SIDE_SELL ELSE SIDE_BUY

\* cancel_orders, called on the detection of a position, gets its list
C3_lists == mp_pc = "co_fetch" /\ co_ret = "init" /\ mp_pc' = "co_cancel"

\* ... and has the exchange cancel an order
C3_cancels == mp_pc = "co_cancel" /\ co_ret = "init" /\ mp_pc' = "co_cancel_r"

\* C3 as stated: the orders cancelled on the detection of a LONG position
\* are the resting BUY orders, on a SHORT position the resting SELL orders.
C3_cancels_accumulating_side ==
    [][ /\ C3_lists =>
            {co_list'[i] : i \in 1 .. Len(co_list')} =
                {id \in open : book[id].side = C3_side_stated(direction)}
        /\ C3_cancels =>
            /\ book[Head(co_list)].side = C3_side_stated(direction)
            /\ book' = DictPop(book, Head(co_list))
      ]_vars

\* C3, amended: the orders cancelled on the detection of a LONG position are
\* the resting SELL orders, on a SHORT position the resting BUY orders.
C3_cancels_closing_side ==
    [][ /\ C3_lists =>
            {co_list'[i] : i \in 1 .. Len(co_list')} =
                {id \in open : book[id].side = C3_side_taken(direction)}
        /\ C3_cancels =>
            /\ book[Head(co_list)].side = C3_side_taken(direction)
            /\ book' = DictPop(book, Head(co_list))
      ]_vars

\* a SELL order has just been cancelled for a LONG position, a BUY rests on
C3_witness ==
    /\ mp_pc = "co_cancel_r"
    /\ co_ret = "init"
    /\ direction = "LONG"
    /\ Head(co_list) \notin open
    /\ \E id \in open : book[id].side = SIDE_BUY

\* ---- C4
\* C4: from the detection of a position to the placement of the first
\* take-profit order the calls of monitor_position are, in this order,
\* cancel_orders(SELL) for LONG (cancel_orders(BUY) for SHORT), which has
\* returned before calculate_take_profit_level is called, and then
\* place_take_profit_order on the closing side of the detected direction.
C4_cancel_before_take_profit ==
    LET cancel == IF direction = "LONG" THEN "cancel_orders(SELL)"
                                        ELSE "cancel_orders(BUY)"
    IN  /\ (mp_pc \in {"co_fetch", "co_cancel", "co_cancel_r"} /\ co_ret = "init")
              => mp_log = <<cancel>>
        /\ mp_pc = "mp_calc"
              => mp_log = <<cancel, "calculate_take_profit_level">> /\ co_ret = ""
        /\ mp_pc \in {"tp_place_init", "tp_place_init_r"}
              => /\ mp_log = <<cancel, "calculate_take_profit_level",
                               "place_take_profit_order">>
                 /\ direction \in {"LONG", "SHORT"}
                 /\ take_profit_request.side =
                        (IF direction = "LONG" THEN SIDE_SELL ELSE SIDE_BUY)
        /\ (mp_pc = "tp_place_init_r" /\ mp_resp \in open)
              => book[mp_resp].side = (IF direction = "LONG" THEN SIDE_SELL ELSE SIDE_BUY)

\* the first take-profit order of a LONG position rests, after a SELL order
\* was cancelled
C4_witness ==
    /\ mp_pc = "tp_place_init_r"
    /\ direction = "LONG"
    /\ mp_resp \in open
    /\ book[mp_resp].kind = "tp"
    /\ \E id \in acknowledged \ open : id < mp_resp /\ id \notin DOMAIN active_orders

\* ---- C5
\* C5: of the take-profit orders monitor_position placed since it detected
\* the direction, at most one rests on the exchange.
C5_one_take_profit_resting == Cardinality(obs.tps \cap open) <= 1

\* a second take-profit order was accepted while the first one rests
C5_witness ==
    /\ mp_pc = "tp_place_upd_r"
    /\ Cardinality(obs.tps \cap open) = 2

\* ---- C6
\* C6: a FLAT tick that found 2 * num_of_grids entries or more in the ledger
\* submits no grid order.
C6_full_ledger_no_grid == obs.full => mp_pc \notin {"dg_sell", "dg_buy", "dg_buy_r"}

\* a FLAT tick that found the ledger full has had two more orders accepted
C6_witness ==
    /\ obs.full
    /\ mp_pc = "dg_buy_r"
    /\ sell_order \in open
    /\ mp_resp \in open
    /\ Cardinality(open) > 2 * num_of_grids

\* ---- C7
\* C7: a replacement monitor_orders got accepted on the side cancelled at the
\* detection of the position no longer rests when the second iteration of
\* the inner loop after its acceptance begins.
C7_extra_order_one_tick ==
    \A id \in DOMAIN obs.extra : obs.extra[id] >= 2 => id \notin open

\* such a replacement rests in the second iteration after its acceptance
C7_witness ==
    /\ mp_pc = "in_dir"
    /\ \E id \in DOMAIN obs.extra :
           /\ obs.extra[id] = 2
           /\ id \in open
           /\ book[id].kind = "repl"
           /\ book[id].side = opposing_side(direction)

\* ---- C8
\* C8: in every step of either task, monitor_orders requests a replacement
\* only for an id that was never removed before; no removed id is in the
\* ledger; an entry leaves the ledger only by the pop of its id and no entry
\* is altered; and an order acknowledged to a task is in the ledger, with the
\* side and price requested, once the task has resumed.
C8_ledger_not_corrupted ==
    [][ /\ submits => mo_cur'.id \notin removed
        /\ removed' \cap DOMAIN active_orders' = {}
        /\ removed \subseteq removed'
        /\ \A id \in DOMAIN active_orders :
               IF id \in DOMAIN active_orders'
               THEN active_orders'[id] = active_orders[id]
               ELSE id \in removed' \ removed
        /\ (mo_pc = "mo_placed" /\ mo_pc' # "mo_placed") =>
               /\ mo_resp \in DOMAIN active_orders'
               /\ active_orders'[mo_resp] = [side |-> mo_cur.side, price |-> mo_cur.price]
        /\ (mp_pc = "dg_buy_r" /\ mp_pc' # "dg_buy_r") =>
               /\ mp_resp \in DOMAIN active_orders'
               /\ active_orders'[mp_resp].side = SIDE_BUY
               /\ sell_order # None =>
                      /\ sell_order \in DOMAIN active_orders'
                      /\ active_orders'[sell_order].side = SIDE_SELL
        /\ (mp_pc \in {"tp_place_init_r", "tp_place_upd_r"} /\ mp_pc' # mp_pc) =>
               /\ mp_resp \in DOMAIN active_orders'
               /\ active_orders'[mp_resp].side = take_profit_side(direction)
      ]_vars

\* cancel_orders has popped an id of the cycle monitor_orders is in, which
\* awaits the answer to a replacement, and the grid's other entry is kept
C8_witness ==
    /\ mo_pc = "mo_placed"
    /\ cyc.cancelled # {}
    /\ cyc.popped # {}
    /\ DOMAIN active_orders # {}

\* ---- C9
\* C9 as stated: when a cycle whose query succeeded ends, no order that had
\* left the book when the query was answered has an entry in the ledger.
C9_vanished_before_query_removed ==
    [][cycle_ends => cyc.gone \cap DOMAIN active_orders' = {}]_vars

\* C9, amended: when a cycle whose query succeeded ends, the ledger holds no
\* entry that was in it when the query was answered, or when line 441
\* compared the ledger with the list, and whose order was not resting when
\* the query was answered.  (An entry inserted after line 441 for an order
\* that had left the book before the query stays for the next cycle.)
C9_stale_entry_removed ==
    [][cycle_ends =>
          (cyc.stale \cup (cyc.filled \cap cyc.gone)) \cap DOMAIN active_orders' = {}
      ]_vars

\* monitor_orders popped an entry whose order had left the book before the
\* query and has its replacement resting
C9_witness ==
    /\ mo_pc = "mo_placed"
    /\ cyc.stale \cap cyc.popped # {}
    /\ mo_cur.id \in cyc.stale
    /\ mo_resp \in open

\* ---- C10
\* C10: when a cycle whose query succeeded ends, with no step of
\* monitor_position and no change of the book by anybody else since the
\* query, the ids in the ledger are the ids resting on the exchange.
C10_ledger_is_live_list ==
    [][(cycle_ends /\ cyc.alone /\ cyc.q1) => DOMAIN active_orders' = open']_vars

\* a cycle is running alone while an order unknown to the ledger rests
C10_witness ==
    /\ cyc.last = "run"
    /\ cyc.alone
    /\ cyc.q1
    /\ mo_pc = "mo_placed"
    /\ \E id \in open : id \notin DOMAIN active_orders /\ book[id].kind = "pre"

\* ---- C11
\* place_limit_order returned None to monitor_orders (lines 300-309): the
\* replacement was rejected, or the call failed
replacement_rejected ==
    /\ mo_pc = "mo_place"
    /\ fails' = fails + 1
    /\ mo_pc' # "mo_placed"
    /\ (mo_pc' = "mo_fetch" \/ mo_cur'.id # mo_cur.id)

\* C11: when the exchange rejects a replacement, the vanished id is out of
\* the ledger, nothing is inserted in its place and nothing is placed on the
\* exchange; and monitor_orders submits a replacement only for an id that was
\* never removed from the ledger before, so the rejected placement is tried
\* once and no later cycle resubmits it.
C11_rejected_replacement_dropped ==
    [][ /\ replacement_rejected =>
            /\ mo_cur.id \notin DOMAIN active_orders'
            /\ DOMAIN active_orders' \subseteq DOMAIN active_orders
            /\ book' = book
            /\ nextId' = nextId
            /\ mo_cur.id \in removed'
        /\ submits => mo_cur'.id \notin removed
      ]_vars

\* both grid orders vanished, the replacement of the first was rejected and
\* monitor_orders is at the second
C11_witness ==
    /\ mo_pc = "mo_place"
    /\ Cardinality(cyc.popped) = 2
    /\ nextId = 3
    /\ fails = 1
    /\ DOMAIN active_orders = {}

\* ---- C12
\* futures_get_open_orders of line 437 raised
query_failed == mo_pc = "mo_fetch" /\ cyc'.last = "failed"

\* C12: a failed exchange call of a monitor_orders cycle, the open-order
\* query or a replacement placement, ends the cycle: monitor_orders makes no
\* further exchange call in it and is back at line 437 for the next cycle.
C12_failed_call_ends_cycle ==
    [][(query_failed \/ replacement_rejected) => mo_pc' = "mo_fetch"]_vars

\* a replacement was rejected and the same cycle is requesting the next one
C12_witness ==
    /\ mo_pc = "mo_place"
    /\ cyc.last = "run"
    /\ Cardinality(cyc.popped) = 2
    /\ nextId = 3
    /\ fails = 1
    /\ mp_pc = "mp_dir"

\* ---- C13
\* the bounds of the model are used up: the exchange has handed out MaxOrders
\* ids and MaxFail calls have failed, so a placement can get no answer
bounds_reached == nextId > MaxOrders /\ fails = MaxFail

\* monitor_orders is at line 437, monitor_position at line 483 or 501
mo_iteration_begins == mo_pc = "mo_fetch"

mp_iteration_begins == mp_pc \in {"mp_dir", "in_dir"}

C14_update_cancels_places_records ==
    [][ /\ (mp_pc = "in_calc" /\ mp_pc' # "in_calc") =>
            LET level == calculate_take_profit_level(entryPrice, positionAmt)
                changed == /\ fails' = fails
                           /\ level.price # None
                           /\ level.price # tp_price
            IN  IF changed
                THEN /\ mp_pc' = "co_fetch"
                     /\ co_side' = ""
                     /\ co_ret' = "update"
                     /\ new_tp' = level
                     /\ mp_log' = <<"calculate_take_profit_level", "cancel_orders()">>
                     /\ UNCHANGED <<tp_price, tp_quantity, book, nextId, active_orders>>
                ELSE /\ mp_pc' = "in_dir"
                     /\ mp_log' = <<>>
                     /\ UNCHANGED <<tp_price, tp_quantity, book, nextId, active_orders>>
        /\ (co_ret = "update" /\ co_ret' # "update") =>
            /\ mp_pc' = "tp_place_upd"
            /\ mp_log' = <<"calculate_take_profit_level", "cancel_orders()",
                           "place_take_profit_order">>
            /\ UNCHANGED <<new_tp, tp_price, tp_quantity, book, nextId>>
        /\ (mp_pc = "tp_place_upd" /\ mp_pc' = "tp_place_upd_r") =>
            /\ nextId \in DOMAIN book'
            /\ book'[nextId].side = take_profit_side(direction)
            /\ book'[nextId].price = new_tp.price
            /\ book'[nextId].qty = new_tp.qty
            /\ UNCHANGED <<new_tp, tp_price, tp_quantity>>
        /\ (mp_pc \in {"tp_place_upd", "tp_place_upd_r"} /\ mp_pc' = "in_dir") =>
            /\ tp_price' = new_tp.price
            /\ tp_quantity' = new_tp.qty
        /\ (mp_pc' = "tp_place_upd" /\ mp_pc # "tp_place_upd") => co_ret = "update"
      ]_vars

\* the position grew, the level moved, and the order at the new level has been
\* accepted while the old level is still the tracked one
C14_witness ==
    /\ mp_pc = "tp_place_upd_r"
    /\ tp_price # None
    /\ new_tp.price # tp_price
    /\ new_tp.qty = 2
    /\ mp_resp \in DOMAIN book
    /\ book[mp_resp].price = new_tp.price

\* ---- C15
\* cancel_orders(), called at line 505 after the position was answered as
\* zero, returns to the outer loop
flat_cancel_returns ==
    /\ co_ret = "flip"
    /\ obs.zero
    /\ mp_pc \in {"co_cancel", "co_cancel_r"}
    /\ mp_pc' = "mp_dir"

\* C15: when the inner loop has seen the position amount back at zero,
\* cancel_orders() issues a cancel for every order of the list it fetched
\* before monitor_position goes back to line 483: it returns from the last
\* order of the list only.
C15_flat_cancels_every_listed_order ==
    [][flat_cancel_returns => Len(co_list) = 1]_vars

\* the position is back at zero, cancel_orders() has a list of two orders,
\* and the first of them was filled after the list was answered
C15_witness ==
    /\ co_ret = "flip"
    /\ obs.zero
    /\ mp_pc = "co_cancel"
    /\ Len(co_list) = 2
    /\ Head(co_list) \notin open
    /\ co_list[2] \in open

\* ---- C16
\* C16: for a position amount of zero calculate_take_profit_level returns
\* (None, None), and monitor_position, answered so at line 495 or at line 509,
\* goes on to the next iteration of the inner loop without a placement: the
\* book, the exchange's id counter and the ledger are unchanged, and the
\* tracked target is (None, None) at line 495 and unchanged at line 509.
C16_no_target_no_order ==
    [][ (mp_pc \in {"mp_calc", "in_calc"} /\ mp_pc' # mp_pc /\ positionAmt = 0) =>
            /\ calculate_take_profit_level(entryPrice, positionAmt) = NoTp
            /\ take_profit_level(TRUE) = NoTp
            /\ mp_pc' = "in_dir"
            /\ UNCHANGED <<book, nextId, active_orders>>
            /\ IF mp_pc = "mp_calc"
               THEN tp_price' = None /\ tp_quantity' = None
               ELSE UNCHANGED <<tp_price, tp_quantity>>
      ]_vars

\* the position closed between its detection and line 495: no target was
\* computed, no order was placed, and the inner loop runs with no target
C16_witness ==
    /\ mp_pc = "in_dir"
    /\ mp_log = <<>>
    /\ direction # "FLAT"
    /\ positionAmt = 0
    /\ tp_price = None
    /\ fails = 0
    /\ obs.tps = {}

\* ---- C18
\* the ledger `ledger` with the order `id` of a level entered, if there is one
with_order(ledger, id, side, price) ==
    IF id = None THEN ledger ELSE DictSet(ledger, id, [side |-> side, price |-> price])

C20_no_price_no_grid ==
    [][ /\ (mp_pc = "dg_mark" /\ mp_pc' # mp_pc) =>
            IF fails' # fails
            THEN /\ mp_pc' = "mp_dir"
                 /\ UNCHANGED <<book, nextId, active_orders, current_price, dg_i>>
            ELSE /\ mp_pc' = "dg_sell"
                 /\ current_price' \in MarkPrices
        /\ (mp_pc = "mp_dir" /\ mp_pc' # mp_pc /\ direction' = "FLAT") =>
            /\ mp_pc' = "dg_mark"
            /\ mp_log' = <<"draw_grid">>
      ]_vars

\* the mark price was unavailable at the first tick: nothing was placed and
\* monitor_position is at line 483 again
C20_witness ==
    /\ mp_pc = "mp_dir"
    /\ nextId = 1
    /\ fails = 1
    /\ active_orders = <<>>
    /\ mo_pc = "mo_fetched"
    /\ cyc.last = "run"
    /\ ~cyc.alone

\* ---- C17
\* C17: run_bot is at a call of place_take_profit_order only with a target:
\* at line 223 with the level of line 221, at line 232 with the level of line
\* 228, neither of them (None, None).
C17_no_target_no_order ==
    /\ bot.pc = "tp" => (bot.tp_price # None /\ bot.tp_amount # None)
    /\ bot.pc = "in_tp" => (bot.new_tp_price # None /\ bot.new_tp_amount # None)

\* the position closed while a target was tracked, the recomputation of line
\* 228 returned (None, None), no call ever failed, and run_bot is at line 232
C17_witness ==
    /\ bot.pc = "in_tp"
    /\ bot.new_tp_price = None
    /\ bot.new_tp_amount = None
    /\ bot.tp_price # None
    /\ positionAmt = 0
    /\ fails = 0

\* ---- C19
\* C19: when draw_adaptive_grid has gone through its levels with
\* N = num_of_grids, it has sent 2 * N orders: for i in 1 .. N a SELL at the
\* mark price plus i * grid_spacing and a BUY at the mark price minus
\* i * grid_spacing (each cut to the price step), and none at the mark price.
C19_two_N_levels ==
    (hft.pc = "done" /\ hft.current_price # None) =>
        LET N == hft.num_of_grids
            P == hft.current_price
            s == hft.grid_spacing
        IN  /\ Len(hft.submitted) = 2 * N
            /\ \A i \in 1 .. N :
                /\ \E j \in DOMAIN hft.submitted :
                       hft.submitted[j] = [side |-> SIDE_SELL,
                                           price |-> round_step_size(P + i * s, hft_tick_size),
                                           qty |-> volume]
                /\ \E j \in DOMAIN hft.submitted :
                       hft.submitted[j] = [side |-> SIDE_BUY,
                                           price |-> round_step_size(P - i * s, hft_tick_size),
                                           qty |-> volume]
            /\ \A j \in DOMAIN hft.submitted :
                   hft.submitted[j].price # round_step_size(P, hft_tick_size)

\* the pass is over with a spacing of one tick and every order accepted:
\* 2 * N + 1 orders were sent, the one in the middle a SELL at the mark price
C19_witness ==
    /\ hft.pc = "done"
    /\ hft.num_of_grids = 2
    /\ hft.grid_spacing = hft_tick_size
    /\ hft.current_price = 20
    /\ Len(hft.submitted) = 2 * hft.num_of_grids + 1
    /\ hft.submitted[hft.num_of_grids + 1] = [side |-> SIDE_SELL, price |-> 20, qty |-> volume]
    /\ Cardinality(DOMAIN hft.active_orders) = 2 * hft.num_of_grids + 1

\* ---- C21
\* the keys a step adds to the ledger, and the keys it removes
ledger_gains == (DOMAIN active_orders') \ (DOMAIN active_orders)

ledger_loses == (DOMAIN active_orders) \ (DOMAIN active_orders')

\* C21: a step adds to the ledger only orderIds that a placement was just
\* answered with (the replacement of monitor_orders, the take-profit order or
\* the BUY of monitor_position, the SELL of draw_grid), all acknowledged by
\* the exchange; a step removes at most one key, and only the id that
\* monitor_orders pops because it was absent from the list its cycle fetched,
\* or the id for which cancel_orders has just been answered a successful
\* cancel; entries that stay keep their side and price.
C21_ledger_changes ==
    [][ /\ ledger_gains \subseteq acknowledged
        /\ ledger_gains \subseteq
               (IF mo_pc = "mo_placed" THEN {mo_resp} ELSE {})
               \cup (IF mp_pc \in {"tp_place_init_r", "tp_place_upd_r", "dg_buy_r"}
                     THEN {mp_resp} ELSE {})
               \cup (IF mp_pc \in {"dg_buy", "dg_buy_r"} THEN {sell_order} ELSE {})
        /\ None \notin ledger_gains
        /\ Cardinality(ledger_loses) <= 1
        /\ \A id \in ledger_loses :
            \/ /\ mo_pc \in {"mo_fetched", "mo_place", "mo_placed"}
               /\ mo_cur'.id = id
               /\ id \in cyc'.filled
               /\ mo_pc = "mo_fetched" => id \notin mo_open
            \/ /\ mp_pc = "co_cancel_r"
               /\ Head(co_list) = id
        /\ \A id \in (DOMAIN active_orders) \cap (DOMAIN active_orders') :
               active_orders'[id] = active_orders[id]
      ]_vars

\* the ledger tracks a replacement that rests, other entries were removed
\* before, and cancel_orders has just been answered a successful cancel for a
\* tracked id
C21_witness ==
    /\ \E id \in (DOMAIN active_orders) \cap open : book[id].kind = "repl"
    /\ removed # {}
    /\ mp_pc = "co_cancel_r"
    /\ Head(co_list) \in DOMAIN active_orders

\* ---- C22
\* C22: a replacement that rests on the exchange is either the one whose
\* acknowledgment monitor_orders is about to resume with, or it is in the
\* ledger with the side and the price it rests at: from the step in which
\* monitor_orders resumes with the acknowledgment, the replacement is tracked
\* as long as it rests.
C22_resting_replacement_tracked ==
    \A id \in open :
        book[id].kind = "repl" =>
            \/ /\ mo_pc = "mo_placed"
               /\ mo_resp = id
               /\ mo_cur.side = book[id].side
               /\ mo_cur.price = book[id].price
            \/ /\ id \in DOMAIN active_orders
               /\ active_orders[id] = [side |-> book[id].side, price |-> book[id].price]

\* monitor_orders has resumed from a placement and is in a later cycle; the
\* replacement rests and the ledger has it
C22_witness ==
    /\ mo_pc = "mo_fetched"
    /\ \E id \in (DOMAIN active_orders) \cap open :
        /\ book[id].kind = "repl"
        /\ active_orders[id] = [side |-> book[id].side, price |-> book[id].price]
        /\ id \in mo_open

\* ---- C23
\* C23 for the v3 engine: whenever monitor_orders pops an entry and requests
\* its replacement, the request has the side of the entry, at the entry's price
\* plus tick_size for a SELL and minus tick_size for a BUY, and the order the
\* exchange then accepts is that request.
C23_v3_replacement_one_tick ==
    [][ /\ submits =>
            LET entry == active_orders[mo_cur'.id] IN
            /\ mo_cur'.side = entry.side
            /\ mo_cur'.side = SIDE_SELL => mo_cur'.price = entry.price + tick_size
            /\ mo_cur'.side = SIDE_BUY => mo_cur'.price = entry.price - tick_size
        /\ (mo_pc = "mo_place" /\ mo_pc' = "mo_placed") =>
            book' = DictSet(book, nextId, [side |-> mo_cur.side, price |-> mo_cur.price,
                                           qty |-> volume, kind |-> "repl"])
      ]_vars

\* C23 for the v7 engine, as stated: the replacement monitor_orders requested
\* last has the side of the entry it popped, at the entry's price plus the
\* price step for a SELL and minus the price step for a BUY.
C23_replacement_one_tick ==
    hft.new_order # NoInfo =>
        /\ hft.new_order.side = hft.order_info.side
        /\ hft.new_order.side = SIDE_SELL =>
               hft.new_order.price = hft.order_info.price + hft_tick_size
        /\ hft.new_order.side = SIDE_BUY =>
               hft.new_order.price = hft.order_info.price - hft_tick_size

\* a SELL entry of the v7 ledger vanished and its replacement was requested
\* at the entry's own price
C23_witness ==
    /\ hft.order_info.side = SIDE_SELL
    /\ hft.new_order = hft.order_info
    /\ hft.grid_spacing = 1

\* ---- C24
\* C24: when cancel_orders has cancelled an order whose id is not a key of
\* the ledger, line 333 leaves the ledger as it is and cancel_orders goes on
\* with the next order of its list; monitor_orders requests a replacement only
\* for an id it finds in the ledger, never for one that cancel_orders removed
\* during the cycle; such an id is skipped, the step that skips it changes the
\* ledger by nothing but the entry of the replacement just acknowledged, and
\* the cycle ends in the sleep of line 460 with the task alive.
C24_absent_id_is_no_op ==
    [][ /\ (mp_pc = "co_cancel_r" /\ mp_pc' # mp_pc
               /\ Head(co_list) \notin DOMAIN active_orders) =>
            /\ active_orders' = active_orders
            /\ removed' = removed
            /\ Tail(co_list) # <<>> => (mp_pc' = "co_cancel" /\ co_list' = Tail(co_list))
        /\ submits =>
            /\ mo_cur'.id \in DOMAIN active_orders
            /\ mo_cur'.id \notin cyc.cancelled
        /\ cycle_ends =>
            /\ mo_pc' = "mo_fetch"
            /\ cyc'.skipped = cyc.cancelled
            /\ cyc'.skipped \cap cyc.popped = {}
            /\ cyc'.skipped \cap DOMAIN active_orders' = {}
            /\ \/ active_orders' = active_orders
               \/ /\ mo_pc = "mo_placed"
                  /\ active_orders' = DictSet(active_orders, mo_resp,
                                              [side |-> mo_cur.side, price |-> mo_cur.price])
      ]_vars

\* a cycle of monitor_orders ended after it skipped order 4, which
\* cancel_orders had removed meanwhile; orders 1 and 2, which rested before the
\* bot started and were never in the ledger, are off the book without a fill
\* (the one fill is that of the SELL order 3): cancel_orders cancelled them
C24_witness ==
    /\ cyc.last = "ok"
    /\ cyc.skipped = {4}
    /\ removed = {3, 4}
    /\ open = {}
    /\ nextId = 5
    /\ positionAmt = -1
    /\ active_orders = <<>>
    /\ mo_resp = None /\ mp_resp = None /\ sell_order = None

\* ---- C25
\* where monitor_position is inside cancel_orders
IN_CANCEL == {"co_fetch", "co_cancel", "co_cancel_r"}

\* line 321 (and 319 without a side): the orders of the list that cancel_orders keeps
orders_to_cancel(side) ==
    IF side # "" THEN SelectSeq(OpenOrderList, LAMBDA id : book[id].side = side)
    ELSE OpenOrderList

\* C25 as stated: cancel_orders(side) keeps of the list it fetched the orders
\* of that side, all of them without a side, in the order of the list; it
\* sends the cancel requests one by one in that order, each for the head of
\* what is left; a cancelled id is out of the ledger when the loop moves on;
\* and it returns only from the last order of the list, so that every order
\* kept was sent a cancel request.
C25_cancels_exactly_listed ==
    [][ /\ (mp_pc = "co_fetch" /\ mp_pc' = "co_cancel") =>
            /\ co_list' = orders_to_cancel(co_side)
            /\ UNCHANGED <<book, active_orders>>
        /\ (mp_pc = "co_fetch" /\ mp_pc' \notin IN_CANCEL /\ fails' = fails) =>
            /\ orders_to_cancel(co_side) = <<>>
            /\ UNCHANGED <<book, active_orders>>
        /\ (mp_pc = "co_cancel" /\ mp_pc' = "co_cancel_r") =>
            /\ book' = DictPop(book, Head(co_list))
            /\ co_side # "" => book[Head(co_list)].side = co_side
            /\ co_list' = co_list
        /\ (mp_pc = "co_cancel_r" /\ mp_pc' # mp_pc) =>
            /\ Head(co_list) \notin DOMAIN active_orders'
            /\ Tail(co_list) # <<>> => (mp_pc' = "co_cancel" /\ co_list' = Tail(co_list))
        /\ (mp_pc \in {"co_cancel", "co_cancel_r"} /\ mp_pc' \notin IN_CANCEL) =>
            Len(co_list) = 1
      ]_vars

\* cancel_orders(side=BUY) has two BUY orders of its list left, and the first
\* of them was filled before its cancel request
C25_witness ==
    /\ co_side = SIDE_BUY
    /\ mp_pc = "co_cancel"
    /\ Len(co_list) = 2
    /\ Head(co_list) \notin open
    /\ co_list[2] \in open
    /\ book[co_list[2]].side = SIDE_BUY

\* ---- C26
\* C26: place_take_profit_order, called with the direction LONG or SHORT,
\* sends one limit order, a SELL for LONG and a BUY for SHORT, at the price
\* and quantity it was given; when the exchange acknowledges it, the ledger
\* gains the orderId with that side and price and nothing else changes in it;
\* when the placement fails, the book and the ledger are unchanged.
C26_take_profit_order ==
    [][ LET price == IF mp_pc \in {"tp_place_init", "tp_place_init_r"}
                     THEN tp_price ELSE new_tp.price
            quantity == IF mp_pc \in {"tp_place_init", "tp_place_init_r"}
                        THEN tp_quantity ELSE new_tp.qty
            side == IF direction = "LONG" THEN SIDE_SELL ELSE SIDE_BUY
        IN  /\ (mp_pc \in {"tp_place_init", "tp_place_upd"} /\ mp_pc' # mp_pc) =>
                /\ direction \in {"LONG", "SHORT"}
                /\ price # None /\ quantity # None
                /\ IF nextId' # nextId
                   THEN /\ book' = DictSet(book, nextId,
                                           [side |-> side, price |-> price,
                                            qty |-> quantity, kind |-> "tp"])
                        /\ nextId' = nextId + 1
                        /\ mp_resp' = nextId
                        /\ mp_pc' \in {"tp_place_init_r", "tp_place_upd_r"}
                        /\ active_orders' = active_orders
                   ELSE /\ UNCHANGED <<book, active_orders>>
                        /\ mp_pc' = "in_dir"
            /\ (mp_pc \in {"tp_place_init_r", "tp_place_upd_r"} /\ mp_pc' # mp_pc) =>
                /\ active_orders' = DictSet(active_orders, mp_resp,
                                            [side |-> side, price |-> price])
                /\ mp_resp \notin DOMAIN active_orders
                /\ UNCHANGED <<book, nextId>>
      ]_vars

\* the take-profit order of a SHORT position, a BUY, rests and is in the
\* ledger with its side and price
C26_witness ==
    /\ direction = "SHORT"
    /\ mp_pc = "in_dir"
    /\ \E id \in (DOMAIN active_orders) \cap open :
        /\ book[id].kind = "tp"
        /\ book[id].side = SIDE_BUY
        /\ book[id].price = tp_price
        /\ book[id].qty = tp_quantity
        /\ active_orders[id] = [side |-> SIDE_BUY, price |-> tp_price]

\* ---- C27
\* the records of the symbol in an answer of futures_position_information
own_records(positions) == SelectSeq(positions, LAMBDA p : p.symbol = symbol)

\* C27: get_position_direction returns LONG when the amount of the symbol's
\* record (the first one, if several are reported) is above zero, SHORT when
\* it is below zero and FLAT when it is zero, whatever its magnitude, and FLAT
\* when the answer has no record of the symbol.
C27_direction_classification ==
    (call.fn = "get_position_direction" /\ call.pc = "done") =>
        LET own == own_records(call.positions) IN
        IF own = <<>> THEN call.ret = "FLAT"
        ELSE LET amt == own[1].positionAmt IN
             /\ (~amt.neg /\ amt.digits > 0) => call.ret = "LONG"
             /\ (amt.neg /\ amt.digits > 0) => call.ret = "SHORT"
             /\ amt.digits = 0 => call.ret = "FLAT"

\* the answer has a record of another symbol with a LONG amount and then the
\* record of the symbol with the largest SHORT amount: SHORT is returned
C27_witness ==
    /\ call.fn = "get_position_direction"
    /\ call.pc = "done"
    /\ Len(call.positions) = 2
    /\ call.positions[1] = [symbol |-> "ETHUSDT", positionAmt |-> [neg |-> FALSE, digits |-> 1]]
    /\ call.positions[2] = [symbol |-> symbol, positionAmt |-> [neg |-> TRUE, digits |-> MaxAmt]]
    /\ call.ret = "SHORT"

leverage_unusable(position) == position.leverage = <<>> \/ position.leverage[1] <= 0

\* C29 as stated: when the record of the open position reports a leverage of
\* zero or below, or none, calculate_take_profit_level computes the margin
\* with a leverage of 1 and returns a take-profit target.
C29_leverage_defaults_to_one ==
    (/\ call.fn = "calculate_take_profit_level"
     /\ call.pc = "done"
     /\ open_positions(call.positions) # <<>>
     /\ leverage_unusable(open_positions(call.positions)[1])) =>
        LET p == open_positions(call.positions)[1] IN
        /\ call.ret # NoTp
        /\ call.ret = take_profit_target(p.entryPrice, float(p.positionAmt), 1,
                                         call.config.take_profit_percent)

\* the v3 function, configured with a leverage of zero and answered with a
\* LONG position whose record reports a leverage of zero, returned (None, None)
C29_witness ==
    /\ call.fn = "calculate_take_profit_level"
    /\ call.pc = "done"
    /\ call.version = "v3"
    /\ call.config.leverage = 0
    /\ call.positions = <<[symbol |-> symbol, positionAmt |-> [neg |-> FALSE, digits |-> 1],
                           entryPrice |-> 33, leverage |-> <<0>>]>>
    /\ call.ret = NoTp

\* ---- C30
\* the start of the bot has failed: the client was not created, or the tick
\* size of the symbol was not resolved
startup_fails ==
    /\ call.fn = "run"
    /\ \/ call.pc = "create" /\ ~call'.client
       \/ call.pc = "tick" /\ call'.tick_size = None
    /\ call' # call

\* C30: when AsyncClient.create fails, or futures_exchange_info fails or
\* names no tick size for the symbol, the process exits at once with status
\* 1; until run has started the tasks nothing is submitted and neither task
\* takes a step, run starts them only with a client and a tick size, and
\* after the exit nothing happens but fills of orders that rested before.
C30_startup_error_is_fatal ==
    [][ call.fn = "run" =>
          /\ startup_fails => (call'.pc = "exited" /\ call'.status = 1)
          /\ call'.pc = "exited" => call'.status # 0
          /\ (call.pc # "running" /\ call'.pc = "running") =>
                (call.pc = "gather" /\ call.client /\ call.tick_size = tick_size)
          /\ call.pc # "running" =>
                /\ mo_pc = "init" /\ mp_pc = "init"
                /\ nextId' = nextId /\ fails' = fails
                /\ active_orders' = active_orders /\ active_orders = <<>>
                /\ \A id \in DOMAIN book' : id \in DOMAIN book /\ book'[id] = book[id]
          /\ call.pc = "exited" => (call' = call /\ mo_pc' = "init" /\ mp_pc' = "init")
      ]_vars

\* the client was created, the exchange listed the symbol without a price
\* filter, and the process has exited with status 1; nothing was submitted
C30_witness ==
    /\ call.fn = "run"
    /\ call.pc = "exited"
    /\ call.status = 1
    /\ call.error = "Could not retrieve tick size"
    /\ call.client
    /\ call.tick_size = None
    /\ mo_pc = "init" /\ mp_pc = "init"
    /\ nextId = 3 /\ fails = 0
    /\ 1 \notin open /\ 2 \in open

\* ------------------------------------------------------------------ C31
\* a step of the shutdown of run: the cancellation of its tasks, or its
\* finally clause
shutdown_step ==
    /\ call.fn = "run"
    /\ \/ call.pc = "running" /\ call'.pc = "finally"
       \/ call.pc = "finally" /\ call'.pc = "returned"

\* C31: when run is over after its tasks were started, close_connection was
\* called on the client before, and no step of the shutdown takes an order
\* from the exchange's book (the orders placed earlier go on resting).
C31_shutdown_closes_connection ==
    /\ [](call.fn = "run" /\ call.pc = "returned" => call.closed)
    /\ [][shutdown_step => book' = book /\ open' = open]_vars

\* run is over with the connection closed while an order the bot placed
\* rests on the exchange
C31_witness ==
    /\ call.fn = "run"
    /\ call.pc = "returned"
    /\ call.closed
    /\ \E id \in open : book[id].kind # "pre"

\* ------------------------------------------------------------------ C32
\* a step of monitor_pnl: it shows a row or logs an error
monitor_pnl_step == call.fn = "monitor_pnl" /\ call' # call

\* C32: no step of monitor_pnl adds, removes or changes an entry of
\* active_orders, and none changes the orders resting on the exchange or
\* the ids the exchange has given out (no order is submitted or cancelled).
C32_monitor_pnl_writes_nothing_shared ==
    [][monitor_pnl_step =>
          /\ active_orders' = active_orders
          /\ book' = book
          /\ nextId' = nextId
          /\ UNCHANGED <<positionAmt, entryPrice, mo_vars, mp_vars>>]_vars

\* monitor_pnl has shown an open position while the ledger holds an entry
\* and an order rests on the exchange
C32_witness ==
    /\ call.fn = "monitor_pnl"
    /\ call.table # <<>>
    /\ call.table[1].found
    /\ call.table[1].position = positionAmt
    /\ active_orders # <<>>
    /\ open # {}

\* ------------------------------------------------------------------ C33
\* monitor_orders holds a list fetched (line 437) after the exchange
\* processed the cancel of line 329 and before line 333 removed the id from
\* the ledger: cancel_orders waits for the answer of the cancel, the id is
\* in the ledger and not in the list
engine_cancelled_seen ==
    /\ mo_pc = "mo_fetched"
    /\ mp_pc = "co_cancel_r"
    /\ Head(co_list) \in DOMAIN active_orders
    /\ Head(co_list) \notin mo_open

\* C33: when monitor_orders resumes with such a list it counts the order
\* the engine cancelled as filled, and the replacement it requests for it is
\* on the order's own side, which is the side cancel_orders is cancelling.
C33_engine_cancel_taken_for_fill ==
    [][engine_cancelled_seen /\ mo_pc' # mo_pc =>
          /\ Head(co_list) \in cyc'.filled
          /\ mo_pc' = "mo_place"
          /\ mo_cur'.id = Head(co_list) =>
                /\ mo_cur'.side = active_orders[Head(co_list)].side
                /\ co_side # "" => mo_cur'.side = co_side]_vars

\* the interleaving happened: the replacement of the order cancel_orders has
\* just had cancelled rests on the exchange, on the side being cancelled,
\* while cancel_orders still waits to remove the id
C33_witness ==
    /\ mo_pc = "mo_placed"
    /\ mp_pc = "co_cancel_r"
    /\ mo_cur.id = Head(co_list)
    /\ mo_cur.side = co_side
    /\ mo_resp \in open
    /\ book[mo_resp].side = co_side
    /\ Head(co_list) \notin open

\* ------------------------------------------------------------------ C34
\* line 501 is answered by an exception while monitor_position is in its
\* inner loop
failed_query_in_position ==
    /\ mp_pc = "in_dir"
    /\ mp_pc' # "in_dir"
    /\ fails' = fails + 1

\* C34: get_position_direction answers FLAT when the query raises; in the
\* inner loop a failed query calls cancel_orders() without a side and leaves
\* the loop (the break of line 506), with the position as it was; that
\* cancel_orders() takes every order of the list it fetches, the take-profit
\* order included, and returns to the outer loop.
C34_failed_query_taken_for_flat ==
    /\ [](get_position_direction(FALSE) = "FLAT" /\ bot_position_direction(FALSE) = "FLAT")
    /\ [][failed_query_in_position =>
            /\ mp_pc' = "co_fetch"
            /\ co_side' = ""
            /\ co_ret' = "flip"
            /\ mp_log'[Len(mp_log')] = "cancel_orders()"
            /\ positionAmt' = positionAmt
            /\ entryPrice' = entryPrice
            /\ book' = book]_vars
    /\ [][co_ret = "flip" /\ mp_pc = "co_fetch" /\ mp_pc' = "co_cancel" =>
            co_list' = OpenOrderList]_vars
    /\ [][co_ret = "flip" /\ mp_pc \in IN_CANCEL /\ mp_pc' \notin IN_CANCEL =>
            mp_pc' = "mp_dir"]_vars

\* after a failed query cancel_orders() is about to cancel the resting
\* take-profit order although the position is open in the direction held
C34_witness ==
    /\ mp_pc = "co_cancel"
    /\ co_ret = "flip"
    /\ fails = MaxFail
    /\ ~obs.zero
    /\ positionAmt # 0
    /\ position_direction(positionAmt) = direction
    /\ Head(co_list) \in open
    /\ book[Head(co_list)].kind = "tp"

\* ------------------------------------------------------------------ C35
\* the for loop of monitor_orders takes the id of a take-profit order
takes_take_profit_order ==
    /\ mo_pc' = "mo_place"
    /\ mo_cur' # mo_cur
    /\ mo_cur'.id \in obs.tps

\* the exchange accepts the replacement requested for a take-profit order
replaces_take_profit_order ==
    /\ mo_pc = "mo_place"
    /\ mo_pc' = "mo_placed"
    /\ mo_cur.id \in obs.tps

\* C35: a take-profit order of the ledger that is not in the fetched list
\* is treated like any entry: the replacement requested for it is on its
\* side, one tick above its price for a SELL and one tick below for a BUY,
\* and it is submitted with the configured grid volume.
C35_take_profit_replaced_like_grid ==
    /\ [][takes_take_profit_order =>
            /\ mo_cur'.id \in DOMAIN active_orders
            /\ mo_cur'.id \notin mo_open
            /\ mo_cur'.id \in cyc'.filled
            /\ mo_cur'.side = active_orders[mo_cur'.id].side
            /\ mo_cur'.price = IF mo_cur'.side = SIDE_SELL
                               THEN active_orders[mo_cur'.id].price + tick_size
                               ELSE active_orders[mo_cur'.id].price - tick_size]_vars
    /\ [][replaces_take_profit_order =>
            book'[mo_resp'] = [side |-> mo_cur.side, price |-> mo_cur.price,
                               qty |-> volume, kind |-> "repl"]]_vars

\* the replacement of a take-profit order rests on the exchange, on the
\* take-profit side, with the grid volume
C35_witness ==
    /\ mo_pc = "mo_placed"
    /\ mo_cur.id \in obs.tps
    /\ mo_cur.id \notin open
    /\ mo_resp \in open
    /\ book[mo_resp].side = take_profit_side(direction)
    /\ book[mo_resp].qty = volume
    /\ book[mo_resp].kind = "repl"

\* ------------------------------------------------------------------ C36
\* place_take_profit_order returns to monitor_position, with or without an
\* accepted order
placement_ends ==
    /\ mp_pc \in {"tp_place_init", "tp_place_init_r", "tp_place_upd", "tp_place_upd_r"}
    /\ mp_pc' = "in_dir"

\* the target the placement was called with (lines 495 and 509)
computed_target ==
    IF mp_pc \in {"tp_place_init", "tp_place_init_r"}
    THEN [price |-> tp_price, qty |-> tp_quantity]
    ELSE new_tp

\* line 509 is answered with no price or with the tracked price
level_unchanged ==
    /\ mp_pc = "in_calc"
    /\ mp_pc' # "in_calc"
    /\ \/ fails' # fails
       \/ calculate_take_profit_level(entryPrice, positionAmt).price \in {None, tp_price}

\* C36: when place_take_profit_order returns, accepted or not, the tracked
\* price and quantity are the computed target; an iteration of the inner
\* loop that computes the tracked price again places nothing and leaves the
\* book as it is; a take-profit order reaches the exchange only from
\* place_take_profit_order; so a failed placement is not made up for while
\* the loop goes on with that price.
C36_failed_take_profit_not_retried ==
    /\ [][placement_ends =>
            /\ computed_target.price # None
            /\ tp_price' = computed_target.price
            /\ tp_quantity' = computed_target.qty]_vars
    /\ [][level_unchanged =>
            /\ mp_pc' = "in_dir"
            /\ book' = book
            /\ UNCHANGED <<tp_price, tp_quantity, active_orders>>]_vars
    /\ [][(\E id \in open' \ open : book'[id].kind = "tp") =>
            mp_pc \in {"tp_place_init", "tp_place_upd"}]_vars

\* the first placement failed; the inner loop has confirmed the direction
\* and computes the tracked price again: the position has no take-profit
\* order and none will be placed
C36_witness ==
    /\ mp_pc = "in_calc"
    /\ positionAmt # 0
    /\ tp_price # None
    /\ tp_price = calculate_take_profit_level(entryPrice, positionAmt).price
    /\ tp_quantity = Abs(positionAmt)
    /\ obs.tps = {}
    /\ fails = MaxFail
    /\ \A id \in open : book[id].kind # "tp"

\* ------------------------------------------------------------------ C37
\* line 329 raises inside cancel_orders: the request is over without the
\* exchange having cancelled
cancel_fails ==
    /\ mp_pc = "co_cancel"
    /\ mp_pc' # "co_cancel_r"
    /\ co_list' # co_list

\* C37: the step in which a cancel request fails cancels nothing and takes
\* nothing from the ledger, so the orders left on the list rest and stay in
\* the ledger, and what was removed before stays removed; cancel_orders
\* returns to its caller, which goes on: to the take-profit level after the
\* first cancel_orders(side), to the outer loop after a change of direction,
\* to the placement of the new take-profit order in an update.
C37_failed_cancel_ends_the_call ==
    [][cancel_fails =>
          /\ book' = book
          /\ active_orders' = active_orders
          /\ \A i \in 1 .. Len(co_list) :
                /\ co_list[i] \in open => co_list[i] \in open'
                /\ co_list[i] \in DOMAIN active_orders =>
                       co_list[i] \in DOMAIN active_orders'
          /\ removed' = removed
          /\ \A id \in removed : id \notin DOMAIN active_orders'
          /\ co_list' = <<>>
          /\ mp_pc' = IF co_ret = "init" THEN "mp_calc"
                      ELSE IF co_ret = "flip" THEN "mp_dir"
                      ELSE "tp_place_upd"
          /\ co_ret = "update" => new_tp' = new_tp /\ new_tp.price # None]_vars

\* cancel_orders(side=BUY) for a SHORT position had the list <<1, 2, 4>>:
\* order 1 was cancelled, the cancel of order 2 failed; orders 2 and 4 rest,
\* order 4 is in the ledger, and monitor_position goes on to the
\* take-profit level
C37_witness ==
    /\ mp_pc = "mp_calc"
    /\ direction = "SHORT"
    /\ positionAmt = -1
    /\ fails = MaxFail
    /\ 1 \notin open
    /\ 2 \in open
    /\ book[2].kind = "pre"
    /\ 4 \in open \cap DOMAIN active_orders
    /\ book[4].side = SIDE_BUY

\* ------------------------------------------------------------------ C38
\* the exchange accepts the new take-profit order of an update in which
\* every cancel of cancel_orders() went through and no order was accepted
\* since cancel_orders() was answered its list
clean_update_placed ==
    /\ mp_pc = "tp_place_upd"
    /\ mp_pc' = "tp_place_upd_r"
    /\ obs.listed = nextId

\* C38: a take-profit update calls cancel_orders() without a side; the list
\* it works on is every order resting for the symbol, of whatever kind; and
\* when all its cancels went through and nobody else placed an order
\* meanwhile, the new take-profit order is the only resting order once the
\* exchange has accepted it.
C38_update_cancels_everything ==
    /\ [][mp_pc = "in_calc" /\ mp_pc' \notin {"in_calc", "in_dir"} =>
            /\ mp_pc' = "co_fetch"
            /\ co_side' = ""
            /\ co_ret' = "update"
            /\ book' = book]_vars
    /\ [][mp_pc = "co_fetch" /\ co_ret = "update" /\ mp_pc' # mp_pc /\ fails' = fails =>
            IF open = {}
            THEN mp_pc' = "tp_place_upd"
            ELSE /\ mp_pc' = "co_cancel"
                 /\ co_list' = OpenOrderList
                 /\ Len(co_list') = Cardinality(open)]_vars
    /\ [][clean_update_placed =>
            /\ open' = {nextId}
            /\ book'[nextId] = [side |-> take_profit_side(direction),
                                price |-> new_tp.price, qty |-> new_tp.qty,
                                kind |-> "tp"]]_vars

\* an update has cancelled the BUY order 2 that rested from before the start
\* (the position is the fill of order 1 alone) and its new take-profit
\* order, accepted with the id the counter had at the listing, is the only
\* order resting
C38_witness ==
    /\ mp_pc = "tp_place_upd_r"
    /\ obs.listed = mp_resp
    /\ open = {mp_resp}
    /\ book[mp_resp].kind = "tp"
    /\ mp_resp = 3
    /\ positionAmt = 1
    /\ entryPrice = 8
    /\ active_orders = <<>>

\* ------------------------------------------------------------------ C39
\* line 509 is answered for an open position whose level, taken for one unit
\* of the same sign, is the tracked price
same_price_for_any_size ==
    /\ mp_pc = "in_calc"
    /\ mp_pc' # "in_calc"
    /\ fails' = fails
    /\ positionAmt # 0
    /\ tp_price = calculate_take_profit_level(entryPrice, Sign(positionAmt)).price

\* C39: for the entry price and sign of every position the engine reaches,
\* the price of calculate_take_profit_level is the same for every size and
\* the quantity is the size; so an iteration of the inner loop
\* that finds the entry price and sign of the tracked target, whatever the
\* size, cancels and places nothing and keeps the tracked quantity.
C39_price_independent_of_size ==
    /\ [](positionAmt # 0 =>
            \A amt \in 1 .. MaxPos :
               /\ calculate_take_profit_level(entryPrice, Sign(positionAmt) * amt).price
                    = calculate_take_profit_level(entryPrice, Sign(positionAmt)).price
               /\ calculate_take_profit_level(entryPrice, Sign(positionAmt) * amt).qty = amt)
    /\ [][same_price_for_any_size =>
            /\ mp_pc' = "in_dir"
            /\ book' = book
            /\ active_orders' = active_orders
            /\ UNCHANGED <<tp_price, tp_quantity, nextId>>]_vars

\* line 510 has kept the tracked target for a position of two units: the
\* inner loop goes on with the tracked quantity of one unit and the
\* take-profit order of one unit rests
C39_witness ==
    /\ mp_pc = "in_dir"
    /\ obs.kept = 2
    /\ Abs(positionAmt) = 2
    /\ position_direction(positionAmt) = direction
    /\ tp_quantity = 1
    /\ tp_price = calculate_take_profit_level(entryPrice, positionAmt).price
    /\ \E id \in obs.tps \cap open :
          /\ book[id].kind = "tp"
          /\ book[id].qty = 1
          /\ book[id].price = tp_price
====
